---- MODULE Spec2Model ----
(***************************************************************************)
(* Model of the Instapaper plugin for Obsidian: the plugin's runSync       *)
(* (main.ts), the sync engine syncNotes (notes.ts) with the vault and the  *)
(* remote highlights API it talks to.                                      *)
(*                                                                         *)
(* Every asynchronous function is cut at its awaits: one action is the     *)
(* code that runs from one await's resumption up to the next await.  An    *)
(* invocation of runSync that got past the busy flag occupies a slot of    *)
(* `run'; an invocation that returns before its first await is one action. *)
(***************************************************************************)
EXTENDS Integers, Sequences, FiniteSets, TLC

\* ------------------------------------------------------------------ bounds

\* Largest highlight id the remote ever assigns.
MaxId == 4
\* Largest number of highlights the remote returns in one page.
PageSize == 2
\* Number of runSync invocations that may be suspended at an await at once
\* (only the busy flag keeps the second slot empty).
NumSlots == 2
\* Longest highlight template, in tags and literal characters, and longest
\* template a migration rewrites to.
MaxTemplateLen == 2
MaxToLen == 1
\* The longest tag name normalizeTag is given.
MaxTagLen == 4
\* The handles window.setInterval hands out, and the sync frequencies the
\* dropdown offers besides 0 (manual), numbered.
MaxTimers == 3
MaxFrequency == 2

\* ------------------------------------------------------- program constants

\* notes.ts: opts.maxErrors defaults to 3.
DefaultMaxErrors == 3
\* notes.ts: fileForArticle truncates the sanitized title to 250 characters.
MaxNameLen == 250

VARIABLES
    token,           \* settings.token is set (an account is connected)
    notesCursor,     \* settings.notesCursor, in memory
    dataCursor,      \* notesCursor as last written to disk by saveData
    syncInProgress,  \* the plugin's busy flag
    run,             \* per slot: the locals of a suspended runSync/syncNotes
    result,          \* what the most recently returned runSync returned
    folder,          \* the notes folder exists in the vault
    files,           \* file name -> body, the blocks appended so far
    remote,          \* remote[i] = article id of highlight i (0: none delivered)
    template,        \* settings.highlightTemplate
    caughtUp,        \* the last syncNotes ended on an empty page at notesCursor,
                     \* and neither the remote nor the vault changed since
    doc,             \* one note file as text, with the highlight and the
                     \* templates it is written from (NoDoc when the vault
                     \* is modelled block by block)
    syncFrequency,   \* settings.syncFrequency, minutes (0: manual)
    syncInterval,    \* this.syncInterval, the handle kept (0: undefined)
    timers,          \* the handles of the active window intervals
    pending          \* the settings handlers waiting for their saveData

\* The scheduling state.
sched == <<syncFrequency, syncInterval, timers, pending>>

vars == <<token, notesCursor, dataCursor, syncInProgress, run, result,
          folder, files, remote, template, caughtUp, doc, syncFrequency,
          syncInterval, timers, pending>>

Slots == 1..NumSlots

\* ---------------------------------------------------------------- articles

\* The bookmarks the remote knows, by bookmark_id, and their titles as
\* character sequences.  Article 0 stands for an article the remote does not
\* deliver with its highlight (an orphan highlight).
NoArticle == 0
Articles == {1, 2, 3}

Title(a) ==
    CASE a = 1 -> <<"A">>
      [] a = 2 -> <<" ", "A", "/">>
      [] OTHER -> <<"?", " ">>

Hostile == {"\\", "/", ":", "<", ">", "?", "|", "*", "\""}

IsHostile(c) == c \in Hostile

\* The white space String.prototype.trim, trimStart and trimEnd remove.
IsSpace(c) == c \in {" ", "\n", "\t"}

TrimStart(s) ==
    IF \A i \in 1..Len(s) : IsSpace(s[i]) THEN <<>>
    ELSE LET k == CHOOSE i \in 1..Len(s) :
                      /\ ~IsSpace(s[i])
                      /\ \A j \in 1..(i - 1) : IsSpace(s[j])
         IN  SubSeq(s, k, Len(s))

TrimEnd(s) ==
    IF \A i \in 1..Len(s) : IsSpace(s[i]) THEN <<>>
    ELSE LET k == CHOOSE i \in 1..Len(s) :
                      /\ ~IsSpace(s[i])
                      /\ \A j \in (i + 1)..Len(s) : IsSpace(s[j])
         IN  SubSeq(s, 1, k)

Trim(s) == TrimEnd(TrimStart(s))

Substring(s, n) == SubSeq(s, 1, IF Len(s) < n THEN Len(s) ELSE n)

\* title.replace(/[\\/:<>?|*"]/gm, '')
Strip(s) == SelectSeq(s, LAMBDA c : ~IsHostile(c))

\* Mutant: the stripped title is trimmed before it is truncated.
SanitizedName_TrimFirst(title, id) ==
    LET name == Substring(Trim(Strip(title)), MaxNameLen)
    IN  IF name = <<>> THEN <<"Untitled-", ToString(id)>> ELSE name

\* article.title.replace(/[\\/:<>?|*"]/gm, '').substring(0, 250).trim(),
\* or Untitled-{bookmark_id} when that leaves nothing.
SanitizedName(title, id) ==
    LET name == Trim(Substring(Strip(title), MaxNameLen))
    IN  IF name = <<>> THEN <<"Untitled-", ToString(id)>> ELSE name

FileName(a) == SanitizedName(Title(a), a)

\* The article each highlight id belongs to: highlights of two articles
\* whose titles give the same file name, of an article whose title leaves
\* no name, and one highlight the remote delivers without its article.
HighlightArticle(h) ==
    CASE h % 4 = 1 -> 1
      [] h % 4 = 2 -> NoArticle
      [] h % 4 = 3 -> 2
      [] OTHER     -> 3

\* ---------------------------------------------------------------- anchors

\* The highlight templates of the model, by what they mention: "link" uses
\* the {{link}} placeholder, "plain" uses neither {{link}} nor {{blockId}}.
Templates == {"link", "plain"}

UsesLink(t) == t = "link"

UsesBlockId(t) == t = "blockId"

\* contentForHighlight: the rendering of highlight h of article a under
\* template t, reduced to the anchors it carries: the link
\* .../read/{article_id}/{highlight_id} when the template mentions it, the
\* block identifier ^h{highlight_id} when the template mentions it or when
\* the rendering would otherwise carry neither.
contentForHighlight(h, a, t) ==
    [hid |-> h, aid |-> a, tmpl |-> t,
     link |-> UsesLink(t),
     blockId |-> UsesBlockId(t) \/ (~UsesLink(t) /\ ~UsesBlockId(t))]

\* Mutant: only the block identifier is looked for.
hasHighlightMarker_BlockIdOnly(content, h, a) ==
    \E i \in 1..Len(content) : content[i].blockId /\ content[i].hid = h

\* Mutant: any block's anchor counts as this highlight's.
hasHighlightMarker_Any(content, h, a) == content # <<>>

\* content.contains(blockId) || content.contains(link)
hasHighlightMarker(content, h, a) ==
    \E i \in 1..Len(content) :
        \/ content[i].blockId /\ content[i].hid = h
        \/ content[i].link /\ content[i].hid = h /\ content[i].aid = a

\* ------------------------------------------------------------------- text

\* Note files as text.  A string is a sequence of characters; the fixed
\* prefix of a highlight's link and the arrow glyph of the old format are
\* one element each, no other string of the model holding a part of them.

\* String.prototype.contains / includes.
Contains(s, sub) ==
    \E i \in 1..(Len(s) - Len(sub) + 1) : SubSeq(s, i, i + Len(sub) - 1) = sub

\* String.prototype.indexOf, for a substring that occurs.
IndexOf(s, sub) ==
    CHOOSE i \in 1..(Len(s) - Len(sub) + 1) :
        /\ SubSeq(s, i, i + Len(sub) - 1) = sub
        /\ \A j \in 1..(i - 1) : SubSeq(s, j, j + Len(sub) - 1) # sub

Digit(d) == <<"0", "1", "2", "3", "4", "5", "6", "7", "8", "9">>[d + 1]

\* A number in a template literal: `${highlight.highlight_id}'.
RECURSIVE Digits(_)
Digits(n) ==
    IF n < 10 THEN <<Digit(n)>> ELSE Digits(n \div 10) \o <<Digit(n % 10)>>

LinkPrefix == <<"https://www.instapaper.com/read/">>

\* `https://www.instapaper.com/read/${article_id}/${highlight_id}`
linkForHighlight(h) ==
    LinkPrefix \o Digits(h.article_id) \o <<"/">> \o Digits(h.highlight_id)

\* `^h${highlight_id}`
blockIdentifierForHighlight(h) == <<"^", "h">> \o Digits(h.highlight_id)

\* Mutant: only the block identifier is looked for in the text.
hasHighlightMarkerStr_BlockIdOnly(content, h) ==
    Contains(content, blockIdentifierForHighlight(h))

\* hasHighlightMarker on text: content.contains(blockId) ||
\* content.contains(link).
hasHighlightMarkerStr(content, h) ==
    \/ Contains(content, blockIdentifierForHighlight(h))
    \/ Contains(content, linkForHighlight(h))

\* The tags a template of the model may hold; any other element of a
\* template is a literal character.
Tags == {"{{text}}", "{{note}}", "{{link}}", "{{blockId}}"}

\* Mustache.render(template, view) with Mustache.escape = (text) => text:
\* each tag gives the view's value as it is, each literal itself.
RECURSIVE MustacheRender(_, _)
MustacheRender(t, view) ==
    IF t = <<>> THEN <<>>
    ELSE (CASE Head(t) = "{{text}}"    -> view.text
            [] Head(t) = "{{note}}"    -> view.note
            [] Head(t) = "{{link}}"    -> view.link
            [] Head(t) = "{{blockId}}" -> view.blockId
            [] OTHER                   -> <<Head(t)>>)
         \o MustacheRender(Tail(t), view)

\* text.replace(/^/gm, '> '): "> " at the start and after every newline.
RECURSIVE AfterNewlines(_)
AfterNewlines(s) ==
    IF s = <<>> THEN <<>>
    ELSE IF Head(s) = "\n"
         THEN <<"\n", ">", " ">> \o AfterNewlines(Tail(s))
         ELSE <<Head(s)>> \o AfterNewlines(Tail(s))

BlockQuote(s) == <<">", " ">> \o AfterNewlines(s)

\* contentForHighlight before templates (release 1.1.5): the block-quoted
\* text, the link behind the link symbol, a blank line, then the note and a
\* blank line when there is a note.
preTemplateContentForHighlight(h) ==
    LET quoted == BlockQuote(h.text)
                      \o <<" ", "[", "arrow", "]", "(">>
                      \o linkForHighlight(h) \o <<")">> \o <<"\n", "\n">>
    IN  IF h.note # <<>> THEN quoted \o h.note \o <<"\n", "\n">>
        ELSE quoted

\* legacyContentForHighlight: the 1.1.5 format.
legacyContentForHighlight(h) ==
    LET quoted == BlockQuote(h.text)
                      \o <<" ", "[", "arrow", "]", "(">>
                      \o linkForHighlight(h) \o <<")">> \o <<"\n", "\n">>
        noted  == IF h.note # <<>> THEN quoted \o h.note \o <<"\n", "\n">>
                  ELSE quoted
    IN  TrimEnd(noted) \o <<"\n", "\n">>

\* Mutant: the block identifier is never added.
NeedsAnchor_Never(content, h) == FALSE

\* contentForHighlight: `!content.contains(link) &&
\* !content.contains(blockId)'.
NeedsAnchor(content, h) ==
    /\ ~Contains(content, linkForHighlight(h))
    /\ ~Contains(content, blockIdentifierForHighlight(h))

\* Mutant: the two newlines are put behind the content as it is.
Terminated_NoTrim(content) == content \o <<"\n", "\n">>

\* content.trimEnd() + '\n\n'
Terminated(content) == TrimEnd(content) \o <<"\n", "\n">>

\* contentForHighlight on text.
contentForHighlightStr(h, t) ==
    LET rendered == MustacheRender(t, [text |-> h.text, note |-> h.note,
                                       link |-> linkForHighlight(h),
                                       blockId |->
                                           blockIdentifierForHighlight(h)])
        content  == IF NeedsAnchor(rendered, h)
                    THEN TrimEnd(rendered) \o <<" ">>
                             \o blockIdentifierForHighlight(h)
                    ELSE rendered
    IN  Terminated(content)

\* The replacement text of String.prototype.replace with a string pattern:
\* $$ gives $, $& the matched text, $ with a backquote the text before the
\* match, $ with a single quote the text after it; any other $ stands for
\* itself.  The backquote and the single quote are written "bq" and "sq".
RECURSIVE GetSubstitution(_, _, _, _)
GetSubstitution(r, matched, before, after) ==
    IF r = <<>> THEN <<>>
    ELSE IF Head(r) = "$" /\ Len(r) >= 2 /\ r[2] \in {"$", "&", "bq", "sq"}
    THEN (CASE r[2] = "$"  -> <<"$">>
            [] r[2] = "&"  -> matched
            [] r[2] = "bq" -> before
            [] OTHER       -> after)
         \o GetSubstitution(Tail(Tail(r)), matched, before, after)
    ELSE <<Head(r)>> \o GetSubstitution(Tail(r), matched, before, after)

\* fileContent.replace(oldFormat, newFormat): what is put in place of the
\* first occurrence of oldFormat.
Replacement(r, matched, before, after) ==
    GetSubstitution(r, matched, before, after)

\* Mutant: every occurrence is replaced.
RECURSIVE StringReplace_All(_, _, _)
StringReplace_All(s, old, new) ==
    IF ~Contains(s, old) THEN s
    ELSE LET i == IndexOf(s, old)
         IN  SubSeq(s, 1, i - 1) \o new
                 \o StringReplace_All(SubSeq(s, i + Len(old), Len(s)),
                                      old, new)

\* fileContent.replace(oldFormat, newFormat), oldFormat a string: the first
\* occurrence only.
StringReplace(s, old, new) ==
    IF ~Contains(s, old) THEN s
    ELSE LET i      == IndexOf(s, old)
             before == SubSeq(s, 1, i - 1)
             after  == SubSeq(s, i + Len(old), Len(s))
         IN  before \o Replacement(new, old, before, after) \o after

\* ----------------------------------------------------------------- remote

\* The ids the remote holds, in ascending order.
RemoteIds == 1..Len(remote)

\* GET /highlights {after, sort: 'asc'}: the first PageSize highlights whose
\* id is greater than `after', ascending.
Page(after) ==
    LET first == after + 1
        last  == IF after + PageSize < Len(remote) THEN after + PageSize
                 ELSE Len(remote)
    IN  [i \in 1..(IF last >= first THEN last - first + 1 ELSE 0) |-> after + i]

\* bookmarks[highlight.article_id]
ArticleOf(h) == remote[h]

\* ------------------------------------------------------------------- runs

\* opts.updateHighlightTemplate is not given.
NoMigration == [on |-> FALSE, from |-> "link", to |-> "link"]

Options ==
    [createFiles : BOOLEAN, syncProperties : BOOLEAN, syncHighlights : BOOLEAN,
     maxErrors : 1..DefaultMaxErrors, updateHighlightTemplate : {NoMigration}]

DefaultOptions ==
    [createFiles |-> TRUE, syncProperties |-> TRUE, syncHighlights |-> TRUE,
     maxErrors |-> DefaultMaxErrors, updateHighlightTemplate |-> NoMigration]

\* The default options with updateHighlightTemplate = {from, to}.
MigrationOptions ==
    {[DefaultOptions EXCEPT !.updateHighlightTemplate = m] :
        m \in [on : {TRUE}, from : Templates, to : Templates]}

IdleRun ==
    [pc |-> "idle", opts |-> DefaultOptions, cursorIn |-> 0, cursor |-> 0,
     count |-> 0, errors |-> 0, after |-> 0, page |-> <<>>, end |-> "none",
     rebased |-> FALSE, fetched |-> FALSE, lastId |-> 0,
     appends |-> 0, seen |-> {}, unresolved |-> {}, second |-> FALSE,
     clean |-> TRUE, sort |-> "asc", streak |-> 0, resets |-> FALSE,
     template |-> "link", resync |-> FALSE, synced |-> FALSE]

\* No note file is modelled as text.
NoDoc == [pc |-> "none"]

\* loadSettings on a fresh install, apart from the token: DEFAULT_SETTINGS, an
\* empty vault, an empty account, no run.
Fresh ==
    /\ notesCursor = 0
    /\ dataCursor = 0
    /\ syncInProgress = FALSE
    /\ run = [p \in Slots |-> IdleRun]
    /\ result = [notes |-> 0, how |-> "none"]
    /\ folder = FALSE
    /\ files = <<>>
    /\ remote = <<>>
    /\ template = "link"
    /\ caughtUp = FALSE
    /\ syncFrequency = 0
    /\ syncInterval = 0
    /\ timers = {}
    /\ pending = {}

Init == token = FALSE /\ Fresh /\ doc = NoDoc

\* ---------------------------------------------------------------- helpers

Running(p) == run[p].pc # "idle"

\* The slot a new invocation suspends in: the lowest free one.
FreeSlot(p) == ~Running(p) /\ \A q \in Slots : q < p => Running(q)

\* Mutant: the busy flag is never consulted.
IsBusy_Never == FALSE

\* runSync: `if (this.syncInProgress)'.
IsBusy == syncInProgress

\* Mutant: a success does not reset the counter (it counts all failures).
ErrorsAfterSuccess_Kept(errors) == errors

\* Mutant: the request does not carry the cursor.
AfterParam_Zero(cursor) == 0

\* syncNotes: `++errors'.
NextErrors(errors) == errors + 1

\* syncNotes: `errors >= opts.maxErrors' after the increment.
GivesUp(errors, maxErrors) == errors >= maxErrors

\* syncNotes: `errors = 0; // Reset on success'.
ErrorsAfterSuccess(errors) == 0

\* Mutant: `cursor = 0' runs whether or not the folder existed.
StartCursor_AlwaysReset(cursor, existed) == 0

\* Mutant: the cursor is kept when the folder had to be created.
StartCursor_NeverReset(cursor, existed) == cursor

\* syncNotes: the cursor the loop starts from: `cursor = 0' when the folder
\* had to be created, the cursor passed in when it existed.
StartCursor(cursor, existed) == IF existed THEN cursor ELSE 0

\* Mutant: the flag is cleared after the save only, not in a finally.
FlagOnExit_NoFinally(threw) == threw

\* runSync: `finally { this.syncInProgress = false }', on a return and on a
\* throw alike.
FlagOnExit(threw) == FALSE

\* Mutant: a missing folder is created whatever createFiles says.
CreatesFolder_Always(opts) == TRUE

\* syncNotes: `if (!opts.createFiles) return {cursor, count: 0}' decides
\* whether a missing folder is created.
CreatesFolder(opts) == opts.createFiles

\* syncNotes: getHighlights(token, {after: cursor, sort: 'asc'}).
AfterParam(cursor) == cursor

\* Mutant: the cursor is not moved to the highlight.
CursorAt_Stuck(cursor, h) == cursor

\* syncNotes: `cursor = highlight.highlight_id'.
CursorAt(cursor, h) == h

\* The top of the while loop: the next page is requested at the cursor.
IssueFetch(r) ==
    [r EXCEPT !.pc = "fetch", !.after = AfterParam(r.cursor),
              !.sort = "asc", !.page = <<>>]

\* Mutant: a highlight without its article is handled like any other.
Advance_NoSkip(r, page) ==
    IF page = <<>> THEN IssueFetch(r)
    ELSE [r EXCEPT !.cursor = CursorAt(r.cursor, Head(page)), !.pc = "file",
                   !.page = page, !.seen = @ \cup {Head(page)}]

\* The for loop over the page, up to its next await: the cursor moves to
\* each highlight, a highlight without its article is passed over, and the
\* first one with an article waits for fileForArticle.  After the last
\* highlight the while loop requests the next page.
RECURSIVE Advance(_, _)
Advance(r, page) ==
    IF page = <<>> THEN IssueFetch(r)
    ELSE LET h  == Head(page)
             r1 == [r EXCEPT !.cursor = CursorAt(r.cursor, h)]
         IN  IF ArticleOf(h) = NoArticle
             THEN Advance(r1, Tail(page))
             ELSE [r1 EXCEPT !.pc = "file", !.page = page,
                             !.seen = @ \cup {h}]

\* The highlight a suspended run is working on, its article and file name.
Current(r) == Head(r.page)

CurrentArticle(r) == ArticleOf(Current(r))

CurrentFile(r) == FileName(CurrentArticle(r))

\* Mutant: the highlight is appended whatever syncHighlights says.
SyncsHighlights_Always(opts) == TRUE

\* syncNotes: `if (opts.syncHighlights)'.
SyncsHighlights(opts) == opts.syncHighlights

\* What follows the migration step in the loop body, up to the next await.
AfterMigrate(r) ==
    IF SyncsHighlights(r.opts) THEN [r EXCEPT !.pc = "read"]
    ELSE Advance(r, Tail(r.page))

\* What follows the frontmatter step.
AfterFrontmatter(r) ==
    IF r.opts.updateHighlightTemplate.on THEN [r EXCEPT !.pc = "migrate"]
    ELSE AfterMigrate(r)

\* What follows a resolved file.
AfterFile(r) ==
    IF r.opts.syncProperties THEN [r EXCEPT !.pc = "frontmatter"]
    ELSE AfterFrontmatter(r)

\* syncNotes returns {cursor, count}; runSync sets result.notes and calls
\* saveSettings({notesCursor: newCursor}), which assigns this.settings and
\* waits for saveData.
Return(p, r, how) ==
    /\ run' = [run EXCEPT ![p] = [r EXCEPT !.pc = "save", !.end = how,
                                           !.page = <<>>]]
    /\ notesCursor' = r.cursor

\* An exception leaves syncNotes: runSync's catch logs it, finally clears
\* the flag, and runSync returns its result.
Throw(p, notes) ==
    /\ run' = [run EXCEPT ![p] = IdleRun]
    /\ syncInProgress' = FlagOnExit(TRUE)
    /\ result' = [notes |-> notes, how |-> "threw"]
    /\ caughtUp' = FALSE

\* ---------------------------------------------------------------- runSync

\* runSync without a token: returns {notes: 0} at once.
RunSyncNoToken ==
    /\ ~token
    /\ result' = [notes |-> 0, how |-> "notoken"]
    /\ UNCHANGED <<sched, doc, token, notesCursor, dataCursor, syncInProgress, run,
                   folder, files, remote, template, caughtUp>>

\* runSync while a sync is in progress: logs and returns {notes: 0}.
RunSyncBusy ==
    /\ token
    /\ IsBusy
    /\ result' = [notes |-> 0, how |-> "busy"]
    /\ UNCHANGED <<sched, doc, token, notesCursor, dataCursor, syncInProgress, run,
                   folder, files, remote, template, caughtUp>>

\* Every highlight the remote delivers with its article has its block in
\* the article's file.
AllSynced ==
    \A h \in 1..Len(remote) :
        ArticleOf(h) # NoArticle =>
            /\ FileName(ArticleOf(h)) \in DOMAIN files
            /\ \E i \in 1..Len(files[FileName(ArticleOf(h))]) :
                   files[FileName(ArticleOf(h))][i].hid = h

\* Mutant: a resync starts from the stored cursor like any other run.
RunSyncStart_Stored(p, resync, o) ==
    /\ token
    /\ ~IsBusy
    /\ FreeSlot(p)
    /\ syncInProgress' = TRUE
    /\ LET cursor == notesCursor
       IN  run' = [run EXCEPT ![p] =
                   [IdleRun EXCEPT !.pc = "exists", !.opts = o,
                                   !.cursorIn = cursor, !.cursor = cursor,
                                   !.template = template,
                                   !.resync = resync, !.synced = AllSynced,
                                   !.second = (caughtUp
                                               /\ cursor = notesCursor)]]
    /\ UNCHANGED <<sched, doc, token, notesCursor, dataCursor, result, folder,
                   files, remote, template, caughtUp>>

\* runSync up to syncNotes' first await (vault.adapter.exists).
RunSyncStart(p, resync, o) ==
    /\ token
    /\ ~IsBusy
    /\ FreeSlot(p)
    /\ syncInProgress' = TRUE
    /\ LET cursor == IF resync THEN 0 ELSE notesCursor
       IN  run' = [run EXCEPT ![p] =
                   [IdleRun EXCEPT !.pc = "exists", !.opts = o,
                                   !.cursorIn = cursor, !.cursor = cursor,
                                   !.template = template,
                                   !.resync = resync, !.synced = AllSynced,
                                   !.second = (caughtUp
                                               /\ cursor = notesCursor)]]
    /\ UNCHANGED <<sched, doc, token, notesCursor, dataCursor, result, folder,
                   files, remote, template, caughtUp>>

\* -------------------------------------------------------------- syncNotes

\* vault.adapter.exists(folder) answers.
FolderCheck(p) ==
    LET r == run[p]
    IN  /\ r.pc = "exists"
        /\ IF folder
           THEN /\ run' = [run EXCEPT ![p] =
                           IssueFetch([r EXCEPT !.cursor =
                                                  StartCursor(r.cursor, TRUE)])]
                /\ UNCHANGED notesCursor
           ELSE IF ~CreatesFolder(r.opts)
           THEN Return(p, r, "nofolder")
           ELSE /\ run' = [run EXCEPT ![p].pc = "createFolder"]
                /\ UNCHANGED notesCursor
        /\ UNCHANGED <<sched, doc, token, dataCursor, syncInProgress, result,
                       folder, files, remote, template, caughtUp>>

\* vault.createFolder(folder) succeeds: the cursor is reset and the first
\* page is requested.
CreateFolderOk(p) ==
    LET r == run[p]
    IN  /\ r.pc = "createFolder"
        /\ folder' = TRUE
        /\ run' = [run EXCEPT ![p] =
                   IssueFetch([r EXCEPT !.cursor = StartCursor(r.cursor, FALSE),
                                        !.rebased = TRUE])]
        /\ UNCHANGED <<sched, doc, token, notesCursor, dataCursor, syncInProgress, result,
                       files, remote, template, caughtUp>>

\* vault.createFolder(folder) throws.
CreateFolderFail(p) ==
    /\ run[p].pc = "createFolder"
    /\ Throw(p, 0)
    /\ UNCHANGED <<sched, doc, token, notesCursor, dataCursor, folder, files, remote,
                   template>>

\* getHighlights throws.
FetchFail(p) ==
    LET r  == run[p]
        r1 == [r EXCEPT !.errors = NextErrors(r.errors), !.streak = @ + 1]
    IN  /\ r.pc = "fetch"
        /\ IF GivesUp(r1.errors, r.opts.maxErrors)
           THEN Return(p, r1, "gaveup")
           ELSE /\ run' = [run EXCEPT ![p] = IssueFetch(r1)]
                /\ UNCHANGED notesCursor
        /\ UNCHANGED <<sched, doc, token, dataCursor, syncInProgress, result,
                       folder, files, remote, template, caughtUp>>

\* getHighlights answers with the page after the requested watermark.
FetchOk(p) ==
    LET r    == run[p]
        page == Page(r.after)
        r1   == [r EXCEPT !.errors = ErrorsAfterSuccess(r.errors),
                          !.streak = 0, !.resets = @ \/ r.streak > 0]
    IN  /\ r.pc = "fetch"
        /\ IF page = <<>>
           THEN Return(p, r1, "empty")
           ELSE /\ run' = [run EXCEPT ![p] =
                           Advance([r1 EXCEPT !.fetched = TRUE,
                                              !.lastId = page[Len(page)]],
                                   page)]
                /\ UNCHANGED notesCursor
        /\ UNCHANGED <<sched, doc, token, dataCursor, syncInProgress, result,
                       folder, files, remote, template, caughtUp>>

\* Mutant: the file found is created anew, empty.
FileExisting_Recreates(p) ==
    LET r == run[p]
    IN  /\ r.pc = "file"
        /\ CurrentFile(r) \in DOMAIN files
        /\ files' = [files EXCEPT ![CurrentFile(r)] = <<>>]
        /\ run' = [run EXCEPT ![p] = AfterFile(r)]
        /\ UNCHANGED <<sched, doc, token, notesCursor, dataCursor, syncInProgress,
                       result, folder, remote, template, caughtUp>>

\* fileForArticle: vault.getFileByPath(path) finds the file.
FileExisting(p) ==
    LET r == run[p]
    IN  /\ r.pc = "file"
        /\ CurrentFile(r) \in DOMAIN files
        /\ run' = [run EXCEPT ![p] = AfterFile(r)]
        /\ UNCHANGED <<sched, doc, token, notesCursor, dataCursor, syncInProgress, result,
                       folder, files, remote, template, caughtUp>>

\* fileForArticle: no file, vault.create(path, '') makes an empty one.
FileCreate(p) ==
    LET r == run[p]
    IN  /\ r.pc = "file"
        /\ CurrentFile(r) \notin DOMAIN files
        /\ r.opts.createFiles
        /\ files' = files @@ (CurrentFile(r) :> <<>>)
        /\ run' = [run EXCEPT ![p] = AfterFile(r)]
        /\ UNCHANGED <<sched, doc, token, notesCursor, dataCursor, syncInProgress, result,
                       folder, remote, template, caughtUp>>

\* Mutant: the exception of vault.create is not caught.
FileCreateFail_Throws(p) ==
    /\ run[p].pc = "file"
    /\ CurrentFile(run[p]) \notin DOMAIN files
    /\ run[p].opts.createFiles
    /\ Throw(p, 0)
    /\ UNCHANGED <<sched, doc, token, notesCursor, dataCursor, folder, files, remote,
                   template>>

\* fileForArticle: vault.create throws; logged, the highlight is skipped.
FileCreateFail(p) ==
    LET r == run[p]
    IN  /\ r.pc = "file"
        /\ CurrentFile(r) \notin DOMAIN files
        /\ r.opts.createFiles
        /\ run' = [run EXCEPT ![p] =
                   Advance([r EXCEPT !.unresolved = @ \cup {Current(r)}],
                           Tail(r.page))]
        /\ UNCHANGED <<sched, doc, token, notesCursor, dataCursor, syncInProgress, result,
                       folder, files, remote, template, caughtUp>>

\* Mutant: the missing file is an error that ends the run.
FileAbsent_Throws(p) ==
    /\ run[p].pc = "file"
    /\ CurrentFile(run[p]) \notin DOMAIN files
    /\ ~run[p].opts.createFiles
    /\ Throw(p, 0)
    /\ UNCHANGED <<sched, doc, token, notesCursor, dataCursor, folder, files, remote,
                   template>>

\* fileForArticle: no file and create is false: null, the highlight is skipped.
FileAbsent(p) ==
    LET r == run[p]
    IN  /\ r.pc = "file"
        /\ CurrentFile(r) \notin DOMAIN files
        /\ ~r.opts.createFiles
        /\ run' = [run EXCEPT ![p] =
                   Advance([r EXCEPT !.unresolved = @ \cup {Current(r)}],
                           Tail(r.page))]
        /\ UNCHANGED <<sched, doc, token, notesCursor, dataCursor, syncInProgress, result,
                       folder, files, remote, template, caughtUp>>

\* applyArticleFrontmatter resolves.
FrontmatterOk(p) ==
    LET r == run[p]
    IN  /\ r.pc = "frontmatter"
        /\ run' = [run EXCEPT ![p] = AfterFrontmatter(r)]
        /\ UNCHANGED <<sched, doc, token, notesCursor, dataCursor, syncInProgress, result,
                       folder, files, remote, template, caughtUp>>

\* applyArticleFrontmatter rejects: nothing in syncNotes catches it.
FrontmatterFail(p) ==
    /\ run[p].pc = "frontmatter"
    /\ Throw(p, 0)
    /\ UNCHANGED <<sched, doc, token, notesCursor, dataCursor, folder, files, remote,
                   template>>

\* Mutant: the file is rewritten whether or not the old rendering is there.
MatchesOld_Always(content, old) == TRUE

\* syncNotes: fileContent.contains(oldFormat).
MatchesOld(content, old) == \E i \in 1..Len(content) : content[i] = old

\* fileContent.replace(oldFormat, newFormat) on a file body: the first block
\* that is the old rendering becomes the new one.
ReplaceFirst(content, old, new) ==
    IF \A i \in 1..Len(content) : content[i] # old THEN content
    ELSE LET i == CHOOSE k \in 1..Len(content) :
                      /\ content[k] = old
                      /\ \A j \in 1..(k - 1) : content[j] # old
         IN  [content EXCEPT ![i] = new]

\* The old and the new rendering of the migration step for the current
\* highlight.
OldFormat(r) ==
    contentForHighlight(Current(r), CurrentArticle(r),
                        r.opts.updateHighlightTemplate.from)

NewFormat(r) ==
    contentForHighlight(Current(r), CurrentArticle(r),
                        r.opts.updateHighlightTemplate.to)

\* The migration step: vault.read(file) answers; when the old rendering is
\* not in the file the step is over.
MigrateRead(p) ==
    LET r == run[p]
    IN  /\ r.pc = "migrate"
        /\ run' = [run EXCEPT ![p] =
                   IF MatchesOld(files[CurrentFile(r)], OldFormat(r))
                   THEN [r EXCEPT !.pc = "modify"]
                   ELSE AfterMigrate(r)]
        /\ UNCHANGED <<sched, doc, token, notesCursor, dataCursor, syncInProgress,
                       result, folder, files, remote, template, caughtUp>>

\* The migration step: vault.read(file) rejects.
MigrateReadFail(p) ==
    /\ run[p].pc = "migrate"
    /\ Throw(p, 0)
    /\ UNCHANGED <<sched, doc, token, notesCursor, dataCursor, folder, files, remote,
                   template>>

\* The migration step: vault.modify(file, ...) resolves.
ModifyOk(p) ==
    LET r == run[p]
        f == CurrentFile(r)
    IN  /\ r.pc = "modify"
        /\ files' = [files EXCEPT ![f] =
                     ReplaceFirst(@, OldFormat(r), NewFormat(r))]
        /\ run' = [run EXCEPT ![p] = AfterMigrate(r)]
        /\ UNCHANGED <<sched, doc, token, notesCursor, dataCursor, syncInProgress,
                       result, folder, remote, template, caughtUp>>

\* The migration step: vault.modify rejects.
ModifyFail(p) ==
    /\ run[p].pc = "modify"
    /\ Throw(p, 0)
    /\ UNCHANGED <<sched, doc, token, notesCursor, dataCursor, folder, files, remote,
                   template>>

\* Mutant: the append is started and not awaited; the loop moves on.
ReadOk_NotAwaited(p) ==
    /\ run[p].pc = "read"
    /\ run' = [run EXCEPT ![p] = Advance(run[p], Tail(run[p].page))]
    /\ UNCHANGED <<sched, doc, token, notesCursor, dataCursor, syncInProgress,
                   result, folder, files, remote, template, caughtUp>>

\* vault.read(file) answers; the highlight is appended unless its marker is
\* in the file.
ReadOk(p) ==
    LET r == run[p]
    IN  /\ r.pc = "read"
        /\ run' = [run EXCEPT ![p] =
                   IF ~hasHighlightMarker(files[CurrentFile(r)], Current(r),
                                          CurrentArticle(r))
                   THEN [r EXCEPT !.pc = "append"]
                   ELSE Advance(r, Tail(r.page))]
        /\ UNCHANGED <<sched, doc, token, notesCursor, dataCursor, syncInProgress, result,
                       folder, files, remote, template, caughtUp>>

\* vault.read(file) rejects.
ReadFail(p) ==
    /\ run[p].pc = "read"
    /\ Throw(p, 0)
    /\ UNCHANGED <<sched, doc, token, notesCursor, dataCursor, folder, files, remote,
                   template>>

\* Mutant: the append is not counted.
CountAfterAppend_Missed(count) == count

\* syncNotes: `count++' after an append.
CountAfterAppend(count) == count + 1

\* vault.append(file, contentForHighlight(highlight, template)) resolves.
AppendOk(p) ==
    LET r == run[p]
        f == CurrentFile(r)
    IN  /\ r.pc = "append"
        /\ files' = [files EXCEPT ![f] =
                     Append(@, contentForHighlight(Current(r), CurrentArticle(r),
                                                   r.template))]
        /\ run' = [run EXCEPT ![p] =
                   Advance([r EXCEPT !.count = CountAfterAppend(r.count),
                                     !.appends = @ + 1],
                           Tail(r.page))]
        /\ UNCHANGED <<sched, doc, token, notesCursor, dataCursor, syncInProgress, result,
                       folder, remote, template, caughtUp>>

\* Mutant: the cursor reached is stored when the append rejects.
AppendFail_SavesCursor(p) ==
    /\ run[p].pc = "append"
    /\ Throw(p, 0)
    /\ notesCursor' = run[p].cursor
    /\ dataCursor' = run[p].cursor
    /\ UNCHANGED <<sched, doc, token, folder, files, remote, template>>

\* vault.append rejects.
AppendFail(p) ==
    /\ run[p].pc = "append"
    /\ Throw(p, 0)
    /\ UNCHANGED <<sched, doc, token, notesCursor, dataCursor, folder, files, remote,
                   template>>

\* Mutant: the save puts back the settings the run started with, the token
\* among them.
SaveOk_Restores(p) ==
    LET r == run[p]
    IN  /\ r.pc = "save"
        /\ token' = TRUE
        /\ dataCursor' = notesCursor
        /\ syncInProgress' = FlagOnExit(FALSE)
        /\ result' = [notes |-> r.count, how |-> "ran"]
        /\ run' = [run EXCEPT ![p] = IdleRun]
        /\ caughtUp' = (r.end = "empty" /\ r.clean)
        /\ UNCHANGED <<sched, doc, notesCursor, folder, files, remote,
                       template>>

\* saveData resolves; finally clears the flag and runSync returns.
SaveOk(p) ==
    LET r == run[p]
    IN  /\ r.pc = "save"
        /\ dataCursor' = notesCursor
        /\ syncInProgress' = FlagOnExit(FALSE)
        /\ result' = [notes |-> r.count, how |-> "ran"]
        /\ run' = [run EXCEPT ![p] = IdleRun]
        /\ caughtUp' = (r.end = "empty" /\ r.clean)
        /\ UNCHANGED <<sched, doc, token, notesCursor, folder, files, remote,
                   template>>

\* saveData rejects: the catch logs it; result.notes is already set.
SaveFail(p) ==
    LET r == run[p]
    IN  /\ r.pc = "save"
        /\ syncInProgress' = FlagOnExit(FALSE)
        /\ result' = [notes |-> r.count, how |-> "ran"]
        /\ run' = [run EXCEPT ![p] = IdleRun]
        /\ caughtUp' = (r.end = "empty" /\ r.clean)
        /\ UNCHANGED <<sched, doc, token, notesCursor, dataCursor, folder, files,
                       remote, template>>

\* ------------------------------------------------------------ environment

\* connectAccount's saveSettings({token, account}), resolved.
ConnectAccount ==
    /\ ~token
    /\ token' = TRUE
    /\ dataCursor' = notesCursor
    /\ UNCHANGED <<sched, doc, notesCursor, syncInProgress, run, result,
                   folder, files, remote, template, caughtUp>>

\* disconnectAccount's saveSettings({token: undefined, account: undefined}),
\* resolved.
DisconnectAccount ==
    /\ token
    /\ token' = FALSE
    /\ dataCursor' = notesCursor
    /\ UNCHANGED <<sched, doc, notesCursor, syncInProgress, run, result,
                   folder, files, remote, template, caughtUp>>

\* ----------------------------------------------------- the sync interval

\* Mutant: the interval kept is not cleared.
clearSyncInterval_Skipped(t) == t

\* clearSyncInterval: window.clearInterval(this.syncInterval) (nothing for
\* undefined); the caller's this.syncInterval becomes undefined.
clearSyncInterval(t) == t \ {syncInterval}

\* updateSyncInterval with settings.syncFrequency = frequency: the interval
\* kept is cleared, and unless the frequency is 0 (manual) a new one is
\* installed and its handle kept.  window.setInterval hands out a handle
\* that no active interval has and that differs from the one just cleared:
\* the smallest such.
updateSyncInterval(frequency) ==
    LET cleared == clearSyncInterval(timers)
        free == (1..MaxTimers) \ (timers \cup {syncInterval})
    IN  IF frequency = 0
        THEN /\ timers' = cleared
             /\ syncInterval' = 0
        ELSE /\ free # {}
             /\ LET h == CHOOSE x \in free : \A y \in free : x <= y
                IN  /\ timers' = cleared \cup {h}
                    /\ syncInterval' = h

\* connectAccount up to the saveData of saveSettings({token, account}): the
\* token is in this.settings at once.
connectAccount ==
    /\ ~token
    /\ "connect" \notin pending
    /\ token' = TRUE
    /\ pending' = pending \cup {"connect"}
    /\ UNCHANGED <<doc, notesCursor, dataCursor, syncInProgress, run, result,
                   folder, files, remote, template, caughtUp, syncFrequency,
                   syncInterval, timers>>

\* disconnectAccount up to the saveData of saveSettings({token: undefined,
\* account: undefined}).
disconnectAccount ==
    /\ token
    /\ "disconnect" \notin pending
    /\ token' = FALSE
    /\ pending' = pending \cup {"disconnect"}
    /\ UNCHANGED <<doc, notesCursor, dataCursor, syncInProgress, run, result,
                   folder, files, remote, template, caughtUp, syncFrequency,
                   syncInterval, timers>>

\* The sync frequency dropdown up to the saveData of
\* saveSettings({syncFrequency}).
SetFrequency ==
    /\ "frequency" \notin pending
    /\ \E f \in 0..MaxFrequency : f # syncFrequency /\ syncFrequency' = f
    /\ pending' = pending \cup {"frequency"}
    /\ UNCHANGED <<doc, token, notesCursor, dataCursor, syncInProgress, run,
                   result, folder, files, remote, template, caughtUp,
                   syncInterval, timers>>

\* loadSettings once loadData has answered (on an external change of the
\* data file): this.settings is what the file holds, and after the save of
\* migrated pre-0.7.0 settings, if there is one, updateSyncInterval.
LoadSettings ==
    /\ "load" \notin pending
    /\ notesCursor' = dataCursor
    /\ caughtUp' = FALSE
    /\ \E t \in BOOLEAN, f \in 0..MaxFrequency, needsSave \in BOOLEAN :
          /\ token' = t
          /\ syncFrequency' = f
          /\ IF needsSave
             THEN /\ pending' = pending \cup {"load"}
                  /\ UNCHANGED <<syncInterval, timers>>
             ELSE /\ updateSyncInterval(f)
                  /\ UNCHANGED pending
    /\ UNCHANGED <<doc, dataCursor, syncInProgress, run, result, folder,
                   files, remote, template>>

\* saveData resolves for connectAccount, the frequency dropdown or
\* loadSettings: the handler goes on to updateSyncInterval.
SavedThenUpdate ==
    /\ \E k \in pending \ {"disconnect"} : pending' = pending \ {k}
    /\ dataCursor' = notesCursor
    /\ updateSyncInterval(syncFrequency)
    /\ UNCHANGED <<doc, token, notesCursor, syncInProgress, run, result,
                   folder, files, remote, template, caughtUp, syncFrequency>>

\* saveData resolves for disconnectAccount: clearSyncInterval.
SavedThenClear ==
    /\ "disconnect" \in pending
    /\ pending' = pending \ {"disconnect"}
    /\ dataCursor' = notesCursor
    /\ timers' = clearSyncInterval(timers)
    /\ syncInterval' = 0
    /\ UNCHANGED <<doc, token, notesCursor, syncInProgress, run, result,
                   folder, files, remote, template, caughtUp, syncFrequency>>

\* saveData rejects: the handler ends there, the timer is left as it was.
SettingsSaveFail ==
    /\ \E k \in pending : pending' = pending \ {k}
    /\ UNCHANGED <<doc, token, notesCursor, dataCursor, syncInProgress, run,
                   result, folder, files, remote, template, caughtUp,
                   syncFrequency, syncInterval, timers>>

\* The user highlights a passage: the remote assigns the next id.
AddHighlight ==
    /\ Len(remote) < MaxId
    /\ remote' = Append(remote, HighlightArticle(Len(remote) + 1))
    /\ caughtUp' = FALSE
    /\ run' = [p \in Slots |-> [run[p] EXCEPT !.second = FALSE,
                                               !.clean = FALSE]]
    /\ UNCHANGED <<sched, doc, token, notesCursor, dataCursor, syncInProgress, result,
                   folder, files, template>>

\* The user edits the highlight template in the settings tab.
SetTemplate ==
    /\ \E t \in Templates : t # template /\ template' = t
    /\ UNCHANGED <<sched, doc, token, notesCursor, dataCursor, syncInProgress, run,
                   result, folder, files, remote, caughtUp>>

\* The user deletes the notes folder, between runs.
RemoveFolder ==
    /\ folder
    /\ \A p \in Slots : ~Running(p)
    /\ folder' = FALSE
    /\ files' = <<>>
    /\ caughtUp' = FALSE
    /\ UNCHANGED <<sched, doc, token, notesCursor, dataCursor, syncInProgress, run,
                   result, remote, template>>

\* -------------------------------------------------------- one file as text

\* The highlights a file is written from: ids of which one is a decimal
\* prefix of another, texts with a trailing newline and with the $ patterns
\* of String.prototype.replace, with and without a note.
HighlightIds == {1, 2, 12}

Texts == {<<"a", "\n">>, <<"$", "&">>, <<"$", "$">>}

NoteTexts == {<<>>, <<"n">>}

Strings(S, n) == UNION {[1..k -> S] : k \in 0..n}

\* Every template of up to MaxTemplateLen tags and blanks, the empty one
\* included.
TemplateStrings == Strings(Tags \cup {" "}, MaxTemplateLen)

ToTemplates == Strings(Tags \cup {" "}, MaxToLen)

\* What the user has in the file before and types after a highlight.
Surround == {<<>>, <<"x", "\n">>}

Highlights ==
    [highlight_id : HighlightIds, article_id : {7}, text : Texts,
     note : NoteTexts]

\* A note file whose article has the highlight doc.highlight and, later,
\* a second highlight with the id doc.other.
Docs ==
    {d \in [pc : {"start"}, highlight : Highlights, other : HighlightIds,
            legacy : BOOLEAN, from : TemplateStrings, to : ToTemplates,
            content : Surround, rendered : {<<>>}, old : {<<>>},
            appended : {FALSE}, rewrote : {FALSE}] :
        /\ d.other # d.highlight.highlight_id
        /\ d.legacy => d.from = <<>>}

TextInit == token = FALSE /\ Fresh /\ doc \in Docs

OtherHighlight(d) == [d.highlight EXCEPT !.highlight_id = d.other]

\* The rendering the file was written with: the 1.1.5 format for a file
\* written before templates, contentForHighlight under the template since.
RenderedFrom(d) ==
    IF d.legacy THEN legacyContentForHighlight(d.highlight)
    ELSE contentForHighlightStr(d.highlight, d.from)

\* The read, test and append at the end of the loop body, for highlight h
\* rendered as `rendering'.
AppendUnlessMarked(d, h, rendering, pc) ==
    IF ~hasHighlightMarkerStr(d.content, h)
    THEN [d EXCEPT !.pc = pc, !.content = @ \o rendering,
                   !.rendered = rendering, !.old = d.content,
                   !.appended = TRUE]
    ELSE [d EXCEPT !.pc = pc, !.old = d.content, !.appended = FALSE]

\* A run appends the highlight to the file.
AppendHighlight ==
    /\ doc.pc = "start"
    /\ doc' = AppendUnlessMarked(doc, doc.highlight, RenderedFrom(doc),
                                 "written")
    /\ UNCHANGED <<sched, token, notesCursor, dataCursor, syncInProgress, run,
                   result, folder, files, remote, template, caughtUp>>

\* The user types below the highlight.
UserEdit ==
    /\ doc.pc = "written"
    /\ \E s \in Surround \ {<<>>} :
           doc' = [doc EXCEPT !.pc = "edited", !.content = @ \o s]
    /\ UNCHANGED <<sched, token, notesCursor, dataCursor, syncInProgress, run,
                   result, folder, files, remote, template, caughtUp>>

\* The user copies the block of the highlight to the end of the file.
UserCopy ==
    /\ doc.pc = "written"
    /\ doc' = [doc EXCEPT !.pc = "edited", !.content = @ \o doc.rendered]
    /\ UNCHANGED <<sched, token, notesCursor, dataCursor, syncInProgress, run,
                   result, folder, files, remote, template, caughtUp>>

\* A later run with updateHighlightTemplate = {from, to} (from absent for a
\* file in the 1.1.5 format) reaches the highlight: the migration step.
Migrate ==
    /\ doc.pc \in {"written", "edited"}
    /\ LET oldFormat == TrimEnd(RenderedFrom(doc))
           newFormat == TrimEnd(contentForHighlightStr(doc.highlight, doc.to))
       IN  doc' = [doc EXCEPT
                      !.pc = "migrated", !.old = doc.content,
                      !.rewrote = Contains(doc.content, oldFormat),
                      !.content = IF Contains(doc.content, oldFormat)
                                  THEN StringReplace(doc.content, oldFormat,
                                                     newFormat)
                                  ELSE doc.content]
    /\ UNCHANGED <<sched, token, notesCursor, dataCursor, syncInProgress, run,
                   result, folder, files, remote, template, caughtUp>>

\* A further run with the same updateHighlightTemplate reaches the
\* highlight: the migration step once more.
MigrateAgain ==
    /\ doc.pc = "migrated"
    /\ LET oldFormat == TrimEnd(RenderedFrom(doc))
           newFormat == TrimEnd(contentForHighlightStr(doc.highlight, doc.to))
       IN  doc' = [doc EXCEPT
                      !.pc = "remigrated", !.old = doc.content,
                      !.content = IF Contains(doc.content, oldFormat)
                                  THEN StringReplace(doc.content, oldFormat,
                                                     newFormat)
                                  ELSE doc.content]
    /\ UNCHANGED <<sched, token, notesCursor, dataCursor, syncInProgress, run,
                   result, folder, files, remote, template, caughtUp>>

\* A later run, the template now being doc.to, is given the highlight again.
Redeliver ==
    /\ doc.pc \in {"written", "edited"}
    /\ doc' = AppendUnlessMarked(doc, doc.highlight,
                                 contentForHighlightStr(doc.highlight, doc.to),
                                 "redelivered")
    /\ UNCHANGED <<sched, token, notesCursor, dataCursor, syncInProgress, run,
                   result, folder, files, remote, template, caughtUp>>

\* A later run is given the second highlight of the article.
AppendOther ==
    /\ doc.pc \in {"written", "edited"}
    /\ doc' = AppendUnlessMarked(doc, OtherHighlight(doc),
                                 contentForHighlightStr(OtherHighlight(doc),
                                                        doc.to),
                                 "other")
    /\ UNCHANGED <<sched, token, notesCursor, dataCursor, syncInProgress, run,
                   result, folder, files, remote, template, caughtUp>>

TextSpec ==
    /\ TextInit
    /\ [][ \/ AppendHighlight
           \/ UserEdit
           \/ UserCopy
           \/ MigrateAgain
           \/ Migrate
           \/ Redeliver
           \/ AppendOther ]_vars

\* ---------------------------------------------------------- specification

Step(p) ==
    \/ FolderCheck(p)
    \/ CreateFolderOk(p)
    \/ CreateFolderFail(p)
    \/ FetchFail(p)
    \/ FetchOk(p)
    \/ FileExisting(p)
    \/ FileCreate(p)
    \/ FileCreateFail(p)
    \/ FrontmatterOk(p)
    \/ FrontmatterFail(p)
    \/ ReadOk(p)
    \/ ReadFail(p)
    \/ AppendOk(p)
    \/ AppendFail(p)
    \/ SaveOk(p)
    \/ SaveFail(p)

Next ==
    \/ RunSyncNoToken
    \/ RunSyncBusy
    \/ \E p \in Slots, resync \in BOOLEAN :
          RunSyncStart(p, resync, DefaultOptions)
    \/ \E p \in Slots : Step(p)
    \/ ConnectAccount
    \/ DisconnectAccount
    \/ AddHighlight
    \/ RemoveFolder

Spec == Init /\ [][Next]_vars

\* The sync engine on its own: syncNotes called with every combination of
\* options by a caller that stores the returned cursor as runSync does.
EngineInit == token = TRUE /\ Fresh /\ doc = NoDoc

EngineSpec ==
    /\ EngineInit
    /\ [][ \/ \E p \in Slots, o \in Options : RunSyncStart(p, FALSE, o)
           \/ \E p \in Slots : Step(p) \/ FileAbsent(p)
           \/ AddHighlight
           \/ RemoveFolder ]_vars

\* runSync on a connected account, run after run, while the remote gains
\* highlights.  Every awaited promise settles (the host resolves or rejects
\* each vault and network call), so a suspended run takes its next step.
LiveSpec ==
    /\ EngineInit
    /\ [][ \/ \E p \in Slots, resync \in BOOLEAN :
                 RunSyncStart(p, resync, DefaultOptions)
           \/ \E p \in Slots : Step(p)
           \/ AddHighlight ]_vars
    /\ \A p \in Slots : WF_vars(Step(p))

\* runSync on a connected account, from the stored cursor or from 0, while
\* the user changes the template and removes the folder between runs.
ResyncSpec ==
    /\ EngineInit
    /\ [][ \/ \E p \in Slots, resync \in BOOLEAN :
                 RunSyncStart(p, resync, DefaultOptions)
           \/ \E p \in Slots : Step(p)
           \/ AddHighlight
           \/ RemoveFolder
           \/ SetTemplate ]_vars

\* The plugin with its settings tab open while it syncs: runSync (by the
\* command or from the interval callback) from the stored cursor, the sync
\* frequency changed and the account disconnected while a run is in flight
\* or not.
PluginSpec ==
    /\ EngineInit
    /\ [][ \/ RunSyncNoToken
           \/ RunSyncBusy
           \/ RunSyncStart(1, FALSE, DefaultOptions)
           \/ Step(1)
           \/ disconnectAccount
           \/ SetFrequency
           \/ SavedThenUpdate
           \/ SavedThenClear
           \/ SettingsSaveFail
           \/ AddHighlight ]_vars

\* The settings handlers that touch the sync interval, in any order and
\* overlapping at their saveData.
TimerSpec ==
    /\ Init
    /\ [][ \/ connectAccount
           \/ disconnectAccount
           \/ SetFrequency
           \/ LoadSettings
           \/ SavedThenUpdate
           \/ SavedThenClear
           \/ SettingsSaveFail ]_vars

\* The user highlights a passage of an article the remote delivers: the
\* third article stands in where HighlightArticle has none.
AddDelivered ==
    /\ Len(remote) < MaxId
    /\ LET a == HighlightArticle(Len(remote) + 1)
       IN  remote' = Append(remote, IF a = NoArticle THEN 3 ELSE a)
    /\ caughtUp' = FALSE
    /\ run' = [p \in Slots |-> [run[p] EXCEPT !.second = FALSE,
                                               !.clean = FALSE]]
    /\ UNCHANGED <<sched, doc, token, notesCursor, dataCursor, syncInProgress,
                   result, folder, files, template>>

\* runSync on a connected account against a remote that delivers every
\* highlight with its article.
FreshSpec ==
    /\ EngineInit
    /\ [][ \/ \E p \in Slots : RunSyncStart(p, FALSE, DefaultOptions)
           \/ \E p \in Slots : Step(p)
           \/ AddDelivered ]_vars

\* ------------------------------------------------------------ file names

Fill(c, n) == [i \in 1..n |-> c]

\* Titles for fileForArticle: a run of one character, a..a or blanks, as
\* long as the truncation limit give or take one, between a head and a tail
\* of blanks and path-hostile characters.
Titles ==
    {h \o Fill(c, n) \o t :
        h \in {<<>>, <<" ">>, <<"/">>, <<"\t", ":">>},
        c \in {"a", " "},
        n \in {0, 1, MaxNameLen - 2, MaxNameLen - 1, MaxNameLen,
               MaxNameLen + 1},
        t \in {<<>>, <<" ">>, <<"?">>, <<" ", "b">>}}

NameInit ==
    /\ token = TRUE
    /\ Fresh
    /\ doc \in [pc : {"article"}, title : Titles, bookmark_id : {1, 42}]

\* fileForArticle up to the path: the name for the article.
ResolveName ==
    /\ doc.pc = "article"
    /\ doc' = [pc |-> "named", title |-> doc.title,
               bookmark_id |-> doc.bookmark_id,
               name |-> SanitizedName(doc.title, doc.bookmark_id)]
    /\ UNCHANGED <<sched, token, notesCursor, dataCursor, syncInProgress, run,
                   result, folder, files, remote, template, caughtUp>>

NameSpec == NameInit /\ [][ResolveName]_vars

\* ----------------------------------------------------------- frontmatter

\* The fields of settings.frontmatter, in the order applyArticleFrontmatter
\* writes them.
FieldOrder == <<"title", "author", "url", "pubdate", "date", "tags", "source">>

Fields == {FieldOrder[i] : i \in 1..Len(FieldOrder)}

\* DEFAULT_SETTINGS.frontmatter
DefaultFrontmatter ==
    [f \in Fields |->
        [enabled |-> f \notin {"title", "source"}, propertyName |-> f]]

OBSIDIAN_PROPERTIES == {"cssclasses", "aliases", "tags"}

\* The member of the article a field takes its value from; source takes
\* settings.source.value.
ArticleMember(f) ==
    CASE f = "pubdate" -> "pubtime"
      [] f = "date"    -> "time"
      [] OTHER         -> f

\* frontmatter[k] = v
Put(fm, k, v) == [x \in DOMAIN fm \cup {k} |-> IF x = k THEN v ELSE fm[x]]

\* delete frontmatter[k]
Delete(fm, k) == [x \in DOMAIN fm \ {k} |-> fm[x]]

\* One `if (settings.f.enabled && settings.f.propertyName)' block; article
\* is the set of members with a truthy value, and the value written by field
\* f is written "f".
WriteField(fm, article, settings, f) ==
    LET field == settings[f]
    IN  IF field.enabled /\ field.propertyName # ""
        THEN IF f = "source" \/ ArticleMember(f) \in article
             THEN Put(fm, field.propertyName, f)
             ELSE Delete(fm, field.propertyName)
        ELSE fm

RECURSIVE WriteFields(_, _, _, _)
WriteFields(fm, article, settings, i) ==
    IF i > Len(FieldOrder) THEN fm
    ELSE WriteFields(WriteField(fm, article, settings, FieldOrder[i]),
                     article, settings, i + 1)

enabledNames(settings) ==
    {settings[f].propertyName :
        f \in {g \in Fields : /\ settings[g].enabled
                               /\ settings[g].propertyName # ""}}

\* Mutant: every key of the frontmatter counts as known.
knownNames_All(settings, fm) == DOMAIN fm

knownNames(settings, fm) ==
    ({DefaultFrontmatter[f].propertyName : f \in Fields}
        \cup {settings[f].propertyName : f \in Fields}) \ {""}

\* The removal pass.
RemoveDisabled(fm, settings) ==
    LET gone == {key \in DOMAIN fm :
                    /\ key \notin enabledNames(settings)
                    /\ key \in knownNames(settings, fm)
                    /\ key \notin OBSIDIAN_PROPERTIES}
    IN  [x \in DOMAIN fm \ gone |-> fm[x]]

\* Property names a field can be given, and keys a note can hold: the
\* defaults, none, one of the user's own choice, a host-reserved one; "mine"
\* is a key of the user's that no field is ever named.
\* settings.frontmatter: the defaults with up to two fields changed.
FrontmatterSettings ==
    LET FieldChoices(f) ==
            [enabled : BOOLEAN,
             propertyName : {f, "", "custom", "aliases", "title"}]
    IN  UNION {{[DefaultFrontmatter EXCEPT ![f] = a, ![g] = b] :
                   a \in FieldChoices(f), b \in FieldChoices(g)} :
               f \in Fields, g \in Fields}

FrontmatterInit ==
    /\ token = TRUE
    /\ Fresh
    /\ doc \in {[pc |-> "frontmatter", settings |-> st, article |-> a,
                  removeDisabled |-> rd,
                  before |-> [k \in keys |-> "old"],
                  written |-> [k \in keys |-> "old"],
                  frontmatter |-> [k \in keys |-> "old"]] :
                 st \in FrontmatterSettings,
                 a \in {{ArticleMember(f) : f \in Fields \ {"source"}}, {},
                        {"title", "tags"}},
                 rd \in BOOLEAN,
                 keys \in {{}, Fields \cup {"mine", "custom", "aliases"},
                           {"mine", "tags", "source", "title"},
                           {"custom", "aliases", "url"}}}

\* The callback applyArticleFrontmatter hands to processFrontMatter.
applyArticleFrontmatter ==
    /\ doc.pc = "frontmatter"
    /\ LET written == WriteFields(doc.frontmatter, doc.article,
                                  doc.settings, 1)
       IN  doc' = [doc EXCEPT
                      !.pc = "applied",
                      !.written = written,
                      !.frontmatter =
                          IF doc.removeDisabled
                          THEN RemoveDisabled(written, doc.settings)
                          ELSE written]
    /\ UNCHANGED <<sched, token, notesCursor, dataCursor, syncInProgress, run,
                   result, folder, files, remote, template, caughtUp>>

FrontmatterSpec == FrontmatterInit /\ [][applyArticleFrontmatter]_vars

\* ------------------------------------------------------------------ tags

\* name.replace(/\s+/g, '-')
RECURSIVE ReplaceRuns(_)
ReplaceRuns(s) ==
    IF s = <<>> THEN <<>>
    ELSE IF IsSpace(Head(s)) THEN <<"-">> \o ReplaceRuns(TrimStart(s))
    ELSE <<Head(s)>> \o ReplaceRuns(Tail(s))

\* /^\d+$/.test(name)
IsNumeric(s) ==
    /\ s # <<>>
    /\ \A i \in 1..Len(s) : \E d \in 0..9 : s[i] = Digit(d)

\* Mutant: the name is not trimmed before its white space is replaced.
normalizeTag_NoTrim(name) ==
    LET n == ReplaceRuns(name)
    IN  IF IsNumeric(n) THEN n \o <<"_">> ELSE n

normalizeTag(name) ==
    LET n == ReplaceRuns(Trim(name))
    IN  IF IsNumeric(n) THEN n \o <<"_">> ELSE n

\* Tag names of blanks, tabs, digits, letters and hyphens.
TagInit ==
    /\ token = TRUE
    /\ Fresh
    /\ doc \in [pc : {"tag"},
                 name : Strings({" ", "\t", "1", "a", "-"}, MaxTagLen)]

\* article.tags.map(normalizeTag), for one tag.
NormalizeTag ==
    /\ doc.pc = "tag"
    /\ doc' = [pc |-> "normalized", name |-> doc.name,
               out |-> normalizeTag(doc.name)]
    /\ UNCHANGED <<sched, token, notesCursor, dataCursor, syncInProgress, run,
                   result, folder, files, remote, template, caughtUp>>

\* The normalized name is normalized once more.
NormalizeAgain ==
    /\ doc.pc = "normalized"
    /\ doc' = [pc |-> "again", name |-> doc.name, out |-> doc.out,
               again |-> normalizeTag(doc.out)]
    /\ UNCHANGED <<sched, token, notesCursor, dataCursor, syncInProgress, run,
                   result, folder, files, remote, template, caughtUp>>

TagSpec ==
    /\ TagInit
    /\ [][ \/ NormalizeTag
           \/ NormalizeAgain ]_vars

\* ------------------------------------------------------------ rendering

\* A template that puts the text behind the block-quote mark.
QuoteTemplate == <<">", " ", "{{text}}", " ", "{{link}}">>

\* Highlights to render: texts of one line and of several, notes that are
\* missing, blank, and that end in a blank.
RenderInit ==
    /\ token = TRUE
    /\ Fresh
    /\ doc \in [pc : {"highlight"},
                 highlight : [highlight_id : HighlightIds, article_id : {7},
                              text : Texts \cup {<<"a", "\n", "b">>},
                              note : NoteTexts \cup {<<"n", " ">>, <<" ">>}],
                 template : TemplateStrings \cup {QuoteTemplate}]

\* contentForHighlight(highlight, template)
Render ==
    /\ doc.pc = "highlight"
    /\ doc' = [pc |-> "rendered", highlight |-> doc.highlight,
               template |-> doc.template,
               out |-> contentForHighlightStr(doc.highlight, doc.template)]
    /\ UNCHANGED <<sched, token, notesCursor, dataCursor, syncInProgress, run,
                   result, folder, files, remote, template, caughtUp>>

\* Release 1.1.5 renders the highlight.
RenderPreTemplate ==
    /\ doc.pc = "highlight"
    /\ doc' = [pc |-> "pre", highlight |-> doc.highlight,
               template |-> doc.template,
               out |-> preTemplateContentForHighlight(doc.highlight)]
    /\ UNCHANGED <<sched, token, notesCursor, dataCursor, syncInProgress, run,
                   result, folder, files, remote, template, caughtUp>>

\* legacyContentForHighlight(highlight), for a highlight release 1.1.5
\* rendered.
RenderLegacy ==
    /\ doc.pc = "pre"
    /\ doc' = [pc |-> "legacy", highlight |-> doc.highlight,
               template |-> doc.template, out |-> doc.out,
               legacy |-> legacyContentForHighlight(doc.highlight)]
    /\ UNCHANGED <<sched, token, notesCursor, dataCursor, syncInProgress, run,
                   result, folder, files, remote, template, caughtUp>>

RenderSpec ==
    /\ RenderInit
    /\ [][ \/ Render
           \/ RenderPreTemplate
           \/ RenderLegacy ]_vars

\* syncNotes from the stored cursor under the default options, and from 0
\* with updateHighlightTemplate given (existing notes are updated).
MigrateSpec ==
    /\ EngineInit
    /\ [][ \/ \E p \in Slots : RunSyncStart(p, FALSE, DefaultOptions)
           \/ \E p \in Slots, o \in MigrationOptions : RunSyncStart(p, TRUE, o)
           \/ \E p \in Slots : Step(p)
           \/ \E p \in Slots : \/ MigrateRead(p)
                                \/ MigrateReadFail(p)
                                \/ ModifyOk(p)
                                \/ ModifyFail(p)
           \/ AddHighlight ]_vars

\* ------------------------------------------------------------------ claims

\* syncNotes has returned {cursor, count} in slot p (runSync is saving it).
Returned(p) == run[p].pc = "save"

\* C1: at most one run is in progress at any time; a runSync call made while
\* syncInProgress is true starts no run, returns {notes: 0}, and leaves the
\* in-flight run, the cursor in memory and on disk, the vault and the flag
\* as they were.
C1_SingleRun ==
    [][/\ Cardinality({p \in Slots : run'[p].pc # "idle"}) <= 1
       /\ syncInProgress =>
              \A p \in Slots : run[p].pc = "idle" => run'[p].pc = "idle"
       /\ (syncInProgress /\ result' # result /\ result'.how = "busy") =>
              /\ result'.notes = 0
              /\ UNCHANGED <<run, notesCursor, dataCursor, syncInProgress,
                             folder, files>>]_vars

\* A busy call has returned while a run is waiting for its page.
C1_Witness ==
    /\ syncInProgress
    /\ result.how = "busy"
    /\ \E p \in Slots : run[p].pc = "fetch"

\* C2 as stated: whenever syncNotes returns, the returned cursor is at least
\* the cursor passed in.
C2_Original ==
    \A p \in Slots : Returned(p) => run[p].cursor >= run[p].cursorIn

\* C2, amended: whenever syncNotes returns without having had to create the
\* notes folder, the returned cursor is at least the cursor passed in.
C2_Monotonic ==
    \A p \in Slots :
        (Returned(p) /\ ~run[p].rebased) => run[p].cursor >= run[p].cursorIn

\* A run that started above 0 has moved its cursor and returned.
C2_Witness ==
    \E p \in Slots :
        /\ Returned(p) /\ ~run[p].rebased
        /\ run[p].cursorIn > 0
        /\ run[p].cursor > run[p].cursorIn

\* C3: a run started from the cursor the previous run returned, when that
\* run ended on an empty page and the remote and the vault are as it left
\* them, appends nothing, and returns count 0 and the same cursor.
C3_Idempotent ==
    [][\A p \in Slots :
          run[p].second =>
              /\ files' = files
              /\ run'[p].pc = "save" =>
                     /\ run'[p].count = 0
                     /\ run'[p].cursor = run[p].cursorIn]_vars

\* Such a second run has returned, after a first run that wrote something.
C3_Witness ==
    \E p \in Slots :
        /\ Returned(p) /\ run[p].second
        /\ run[p].cursorIn > 0
        /\ \E f \in DOMAIN files : files[f] # <<>>

\* The anchor of highlight h is in the note file of its article.
AnchorInFile(h) ==
    LET f == FileName(ArticleOf(h))
    IN  /\ f \in DOMAIN files
        /\ \E i \in 1..Len(files[f]) : files[f][i].hid = h

\* C4 as stated: when syncNotes returns cursor c under the default options,
\* every highlight up to c that this run was given with its article has its
\* anchor in the article's note file.
C4_Original ==
    \A p \in Slots :
        (Returned(p) /\ run[p].opts = DefaultOptions) =>
            \A h \in run[p].seen : h <= run[p].cursor => AnchorInFile(h)

\* C4, amended: the same for every such highlight whose note file was
\* resolved; a highlight whose file could not be resolved is passed over
\* and the cursor moves past it all the same.
C4_Processed ==
    \A p \in Slots :
        (Returned(p) /\ run[p].opts = DefaultOptions) =>
            \A h \in run[p].seen \ run[p].unresolved :
                h <= run[p].cursor => AnchorInFile(h)

\* A run has returned after writing one highlight and passing over another.
C4_Witness ==
    \E p \in Slots :
        /\ Returned(p) /\ run[p].opts = DefaultOptions
        /\ run[p].unresolved # {}
        /\ run[p].seen \ run[p].unresolved # {}
        /\ run[p].count > 0

\* C5: syncNotes terminates under every pattern of fetch failures and
\* successes: a run that is under way returns or throws, and a loop that
\* returns has ended on an empty page or on maxErrors consecutive failures.
C5_Terminates ==
    /\ (\E p \in Slots : run[p].pc \notin {"idle", "save"})
           ~> (\A p \in Slots : run[p].pc \in {"idle", "save"})
    /\ [][\A p \in Slots :
             (run'[p].pc = "save" /\ run'[p].end # "nofolder") =>
                 \/ run'[p].end = "empty" /\ run'[p].streak = 0
                 \/ run'[p].end = "gaveup"
                    /\ run'[p].streak = run'[p].opts.maxErrors]_vars

\* A run has given up after failures and successes alternated.
C5_Witness ==
    \E p \in Slots :
        /\ Returned(p) /\ run[p].end = "gaveup"
        /\ run[p].resets /\ run[p].fetched

\* C6: a run that set syncInProgress clears it again, whether syncNotes
\* returned or threw or the save threw; the flag is never left set by a
\* run that has finished.
C6_BackToIdle ==
    /\ syncInProgress ~> ~syncInProgress
    /\ [][syncInProgress' => \E p \in Slots : run'[p].pc # "idle"]_vars

\* A later runSync has started after an earlier run ended by throwing.
C6_Witness ==
    /\ syncInProgress
    /\ \E p \in Slots : run[p].pc = "exists"
    /\ result = [notes |-> 0, how |-> "threw"]

\* C7: the error counter is the number of consecutive failed fetches: a
\* failure adds one, a success resets it, and the run gives up exactly when
\* it reaches maxErrors.
C7_ConsecutiveErrors ==
    \A p \in Slots :
        /\ run[p].errors = run[p].streak
        /\ (Running(p) /\ ~Returned(p)) => run[p].errors < run[p].opts.maxErrors
        /\ Returned(p) =>
               (run[p].end = "gaveup" <=> run[p].errors = run[p].opts.maxErrors)

\* A run is still fetching although maxErrors failures have happened in
\* all, a success having come between them.
C7_Witness ==
    \E p \in Slots :
        /\ run[p].pc = "fetch"
        /\ run[p].resets
        /\ run[p].opts.maxErrors > 1
        /\ run[p].streak = run[p].opts.maxErrors - 1

\* C8: every fetch asks for ascending order after the current cursor, and
\* a failed fetch below the threshold leaves cursor and count alone and is
\* followed by a fetch with the same `after'.
C8_RetrySamePage ==
    [][\A p \in Slots :
          /\ run'[p].pc = "fetch" =>
                 run'[p].after = run'[p].cursor /\ run'[p].sort = "asc"
          /\ (run[p].pc = "fetch" /\ run'[p].pc = "fetch"
                  /\ run'[p].streak = run[p].streak + 1) =>
                 /\ run'[p].cursor = run[p].cursor
                 /\ run'[p].count = run[p].count
                 /\ run'[p].after = run[p].after]_vars

\* A page above 0 is being fetched again after a failure.
C8_Witness ==
    \E p \in Slots :
        /\ run[p].pc = "fetch"
        /\ run[p].streak > 0
        /\ run[p].after > 0

\* Every block of every file is still there, in place, after the step.
FilesKept ==
    \A f \in DOMAIN files :
        /\ f \in DOMAIN files'
        /\ Len(files'[f]) >= Len(files[f])
        /\ SubSeq(files'[f], 1, Len(files[f])) = files[f]

\* C9: a run that gives up after at least one fetched page returns the id
\* of the last highlight of the last fetched page and the number of appends
\* it made, and no step of a run takes anything out of a file.
C9_PartialCommit ==
    [][\A p \in Slots :
          /\ Running(p) => FilesKept
          /\ (run'[p].pc = "save" /\ run'[p].end = "gaveup"
                  /\ run'[p].fetched) =>
                 /\ run'[p].cursor = run'[p].lastId
                 /\ run'[p].count = run'[p].appends]_vars

\* A run has given up after a page it appended from.
C9_Witness ==
    \E p \in Slots :
        /\ Returned(p) /\ run[p].end = "gaveup"
        /\ run[p].fetched /\ run[p].count > 0
        /\ run[p].cursor < Len(remote)

\* C10: when the folder is missing and createFiles is true the folder is
\* created and every fetch up to the first page is made with after = 0,
\* whatever cursor was passed in.
C10_Rebaseline ==
    [][\A p \in Slots :
          /\ (run[p].pc = "exists" /\ ~folder /\ run[p].opts.createFiles) =>
                 run'[p].pc \in {"exists", "createFolder"}
          /\ (run[p].pc = "createFolder" /\ run'[p].pc = "fetch") =>
                 folder' /\ run'[p].rebased
          /\ (run'[p].pc = "fetch" /\ run'[p].rebased /\ ~run'[p].fetched) =>
                 run'[p].after = 0]_vars

\* The first fetch of a run that was passed a cursor above 0 and had to
\* create the folder.
C10_Witness ==
    \E p \in Slots :
        /\ run[p].pc = "fetch" /\ run[p].rebased /\ ~run[p].fetched
        /\ run[p].cursorIn > 0
        /\ run[p].opts.createFiles

\* C11: when the notes folder is missing and createFiles is false, syncNotes
\* returns at once with count 0 and the cursor it was passed: the folder is
\* not created, no page is requested, and no file is created or changed.
C11_NoFolderNoCreate ==
    [][\A p \in Slots :
          (run[p].pc = "exists" /\ ~folder /\ ~run[p].opts.createFiles
               /\ run'[p].pc # "exists") =>
              /\ run'[p].pc = "save" /\ run'[p].end = "nofolder"
              /\ run'[p].count = 0 /\ run'[p].appends = 0
              /\ run'[p].cursor = run[p].cursorIn
              /\ notesCursor' = run[p].cursorIn
              /\ ~run'[p].fetched /\ run'[p].streak = 0
              /\ ~folder' /\ files' = files]_vars

\* Such a run, passed a cursor above 0, has returned.
C11_Witness ==
    \E p \in Slots :
        /\ Returned(p) /\ run[p].end = "nofolder"
        /\ ~run[p].opts.createFiles
        /\ run[p].cursorIn > 0
        /\ ~folder

\* C12 as stated: a run that is inside syncNotes, waiting for a collaborator
\* (folder creation, fetch, file resolution, frontmatter update, read,
\* append), goes on or returns {cursor, count}; it never ends without
\* returning.
C12_NoThrow ==
    [][\A p \in Slots :
          run[p].pc \in {"exists", "createFolder", "fetch", "file",
                         "frontmatter", "read", "append"} =>
              run'[p].pc # "idle"]_vars

\* The largest highlight id that has a block in some file (0 when none).
LastWritten ==
    LET ids == {0} \cup UNION {{files[f][i].hid : i \in 1..Len(files[f])} :
                                   f \in DOMAIN files}
    IN  CHOOSE m \in ids : \A n \in ids : n <= m

\* C13: notesCursor changes only when syncNotes returns, to the cursor it
\* returned, and is written to disk only by a saveSettings that follows;
\* while syncNotes is under way neither copy changes, and when syncNotes
\* throws both are left as they were and runSync reports {notes: 0}.
C13_CallerPersists ==
    [][/\ notesCursor' # notesCursor =>
              \E p \in Slots :
                  /\ run[p].pc \notin {"idle", "save"}
                  /\ run'[p].pc = "save"
                  /\ notesCursor' = run'[p].cursor
       /\ \A p \in Slots :
              /\ (run[p].pc \notin {"idle", "save"} /\ run'[p].pc # "save") =>
                     /\ notesCursor' = notesCursor
                     /\ (run'[p] # run[p] => dataCursor' = dataCursor)
              /\ (run[p].pc \notin {"idle", "save"} /\ run'[p].pc = "idle") =>
                     /\ result'.notes = 0
                     /\ dataCursor' = dataCursor
              /\ (run[p].pc = "save" /\ run'[p].pc = "idle") =>
                     /\ notesCursor' = notesCursor
                     /\ dataCursor' \in {dataCursor, notesCursor}]_vars

\* A run has thrown after appending a highlight beyond the stored cursor.
C13_Witness ==
    /\ result = [notes |-> 0, how |-> "threw"]
    /\ LastWritten > notesCursor
    /\ notesCursor > 0
    /\ dataCursor = notesCursor

\* The number of blocks of highlight h in a file body.
Blocks(content, h) ==
    Cardinality({i \in 1..Len(content) : content[i].hid = h})

\* C14: whatever cursor a run starts from (the stored one, 0 on a resync,
\* the one left behind by a run that threw) and whatever template is set,
\* a highlight whose anchor is in its note file is not appended again:
\* every file holds at most one block per highlight.
C14_AppendOnce ==
    [][\A f \in DOMAIN files' : \A h \in 1..MaxId :
          /\ Blocks(files'[f], h) <= 1
          /\ (f \in DOMAIN files /\ Blocks(files[f], h) = 1) =>
                 files'[f] = files[f] \/ Len(files'[f]) > Len(files[f])]_vars

\* A resync has read the file of a highlight that was appended by an
\* earlier run under the other template.
C14_Witness ==
    \E p \in Slots :
        /\ run[p].pc = "read"
        /\ run[p].cursorIn = 0 /\ notesCursor > 0
        /\ CurrentFile(run[p]) \in DOMAIN files
        /\ \E i \in 1..Len(files[CurrentFile(run[p])]) :
               /\ files[CurrentFile(run[p])][i].hid = Current(run[p])
               /\ files[CurrentFile(run[p])][i].tmpl # run[p].template

\* C15: for every highlight and every template, the empty one and those
\* without {{link}} and {{blockId}} included, the text contentForHighlight
\* returns contains the highlight's block identifier or its link.
C15_AnchorComplete ==
    (doc.pc = "written" /\ ~doc.legacy) =>
        /\ doc.appended
        /\ doc.rendered = contentForHighlightStr(doc.highlight, doc.from)
        /\ \/ Contains(doc.rendered,
                        blockIdentifierForHighlight(doc.highlight))
           \/ Contains(doc.rendered, linkForHighlight(doc.highlight))

\* The empty template has been rendered for highlight 12: a blank, the
\* block identifier and two newlines.
C15_Witness ==
    /\ doc.pc = "written" /\ ~doc.legacy
    /\ doc.from = <<>>
    /\ doc.rendered = <<" ", "^", "h", "1", "2", "\n", "\n">>

\* C16: a file whose text contains the rendering of a highlight, under any
\* template or in the 1.1.5 format and with any text around it, has the
\* highlight's marker, and a later run under another template does not
\* append the highlight again.
C16_Dedup ==
    /\ (doc.pc \in {"written", "edited"}
           /\ Contains(doc.content, RenderedFrom(doc))) =>
           hasHighlightMarkerStr(doc.content, doc.highlight)
    /\ doc.pc = "redelivered" => ~doc.appended

\* A highlight in the 1.1.5 format, with the user's text before and after
\* it, has been delivered again under a template with {{blockId}} only.
C16_Witness ==
    /\ doc.pc = "redelivered" /\ ~doc.appended
    /\ doc.legacy /\ doc.to = <<"{{blockId}}">>
    /\ Contains(doc.content, RenderedFrom(doc))
    /\ Len(doc.content) = Len(RenderedFrom(doc)) + 4

\* C17 as stated: for two highlights with different ids, no anchor of the
\* one occurs in the rendering of the other, and the one is appended
\* although the other's block is in the file.
C17_UniqueAnchor ==
    /\ (doc.pc \in {"written", "edited"} /\ ~doc.legacy) =>
           ~hasHighlightMarkerStr(doc.rendered, OtherHighlight(doc))
    /\ doc.pc = "other" => doc.appended

\* C20 as stated: when the file contains the rendering of the highlight
\* under `from' (the 1.1.5 format when `from' is absent), the migration
\* step puts the rendering under `to' in place of that span and leaves
\* every character before and after it as it was.
C20_MigrateExact ==
    (doc.pc = "migrated" /\ Contains(doc.old, RenderedFrom(doc))) =>
        LET A == RenderedFrom(doc)
            B == contentForHighlightStr(doc.highlight, doc.to)
            i == IndexOf(doc.old, A)
        IN  doc.content = SubSeq(doc.old, 1, i - 1) \o B
                              \o SubSeq(doc.old, i + Len(A), Len(doc.old))

\* The highlights the remote delivers without their article.
Orphans == {h \in RemoteIds : remote[h] = NoArticle}

\* C18: a highlight without its article is passed over in the step that
\* moves the cursor to it: it never reaches file resolution, no file is
\* created or changed for it, count moves only with appends and the error
\* counter only with fetches, and the run goes on with the next highlight
\* of the page or the next page, its cursor at or beyond the orphan.
C18_OrphanSkipped ==
    [][\A p \in Slots : \A h \in Orphans :
          (Running(p) /\ run[p].cursor < h /\ h <= run'[p].cursor) =>
              /\ h \notin run'[p].seen
              /\ run'[p].pc \in {"file", "fetch"}
              /\ run'[p].pc = "file" =>
                     /\ Current(run'[p]) > h
                     /\ run'[p].cursor = Current(run'[p])
              /\ run'[p].pc = "fetch" => run'[p].after = run'[p].lastId
              /\ run'[p].count - run[p].count
                     = run'[p].appends - run[p].appends
              /\ run'[p].errors
                     = (IF run[p].pc = "fetch" THEN 0 ELSE run[p].errors)
              /\ run[p].pc \notin {"file", "append"} => files' = files
              /\ FileName(NoArticle) \notin DOMAIN files'
              /\ \A f \in DOMAIN files' : Blocks(files'[f], h) = 0]_vars

\* A page began with an orphan and the run is resolving the file of the
\* highlight after it.
C18_Witness ==
    \E p \in Slots :
        /\ run[p].pc = "file"
        /\ run[p].after = 1 /\ 2 \in Orphans
        /\ Current(run[p]) = 3
        /\ run[p].cursor = 3

\* C19: when fileForArticle throws, the highlight is passed over: the
\* error counter, count and the files stay as they are, the run neither
\* returns nor throws, and it goes on with the next highlight of the page
\* or the next page.
C19_FileFailureSkipped ==
    [][\A p \in Slots :
          (run[p].pc = "file" /\ run[p].opts.createFiles
               /\ CurrentFile(run[p]) \notin DOMAIN files
               /\ files' = files
               /\ (run'[p].pc # "file" \/ run'[p].page # run[p].page)) =>
              /\ run'[p].unresolved = run[p].unresolved \cup {Current(run[p])}
              /\ run'[p].pc \in {"file", "fetch"}
              /\ run'[p].errors = run[p].errors
              /\ run'[p].streak = run[p].streak
              /\ run'[p].count = run[p].count
              /\ run'[p].pc = "file" => Current(run'[p]) > Current(run[p])
              /\ run'[p].pc = "fetch" => run'[p].after = run[p].lastId]_vars

\* Two highlights on two pages could not get their file, and the run is
\* appending the highlight that follows them.
C19_Witness ==
    \E p \in Slots :
        /\ run[p].pc = "append"
        /\ run[p].opts.createFiles
        /\ run[p].unresolved = {1, 3}
        /\ Current(run[p]) = 4
        /\ run[p].errors = 0

\* The file of the current highlight of run r holds the old rendering.
HoldsOld(r) ==
    \E i \in 1..Len(files[CurrentFile(r)]) :
        files[CurrentFile(r)][i] = OldFormat(r)

\* C21: when the file read by the migration step does not hold the old
\* rendering, the step leaves every file as it is and the run goes on with
\* the append check for the same highlight; vault.modify is only ever called
\* for a file that holds the old rendering, so a mismatch raises nothing.
C21_MismatchSkipped ==
    [][\A p \in Slots :
          /\ (run[p].pc = "migrate" /\ ~HoldsOld(run[p])
                  /\ run'[p].pc \notin {"migrate", "idle"}) =>
                 /\ files' = files
                 /\ run'[p] = [run[p] EXCEPT !.pc = "read"]
                 /\ result' = result
                 /\ syncInProgress' = syncInProgress
          /\ run[p].pc = "modify" => HoldsOld(run[p])]_vars

\* A migration from the block-id template finds the highlight rendered
\* under the link template and goes on to the append check.
C21_Witness ==
    \E p \in Slots :
        LET r == run[p]
        IN  /\ r.pc = "read"
            /\ r.opts.updateHighlightTemplate
                   = [on |-> TRUE, from |-> "plain", to |-> "plain"]
            /\ ~HoldsOld(r)
            /\ \E i \in 1..Len(files[CurrentFile(r)]) :
                   /\ files[CurrentFile(r)][i].hid = Current(r)
                   /\ files[CurrentFile(r)][i].tmpl = "link"

\* C22, as stated: the name is the title with the hostile characters
\* stripped, then trimmed, then cut to 250 characters, and
\* Untitled-{bookmark_id} when stripping and trimming leave nothing.
C22_Original ==
    doc.pc = "named" =>
        LET trimmed == Trim(Strip(doc.title))
        IN  doc.name = (IF trimmed = <<>>
                        THEN <<"Untitled-", ToString(doc.bookmark_id)>>
                        ELSE SubSeq(trimmed, 1,
                                    IF Len(trimmed) < MaxNameLen
                                    THEN Len(trimmed) ELSE MaxNameLen))

\* C22, amended: the name holds no hostile character, neither begins nor
\* ends with white space, is not empty and, when taken from the title, is at
\* most 250 characters long; it is the first 250 characters of the stripped
\* title, trimmed, and Untitled-{bookmark_id} when that leaves nothing.
C22_Sanitized ==
    doc.pc = "named" =>
        LET stripped == Strip(doc.title)
            cut == SubSeq(stripped, 1,
                          IF Len(stripped) < MaxNameLen
                          THEN Len(stripped) ELSE MaxNameLen)
        IN  /\ doc.name # <<>>
            /\ \A i \in 1..Len(doc.name) : ~IsHostile(doc.name[i])
            /\ ~IsSpace(doc.name[1]) /\ ~IsSpace(doc.name[Len(doc.name)])
            /\ doc.name # <<"Untitled-", ToString(doc.bookmark_id)>> =>
                   Len(doc.name) <= MaxNameLen
            /\ doc.name = (IF Trim(cut) = <<>>
                           THEN <<"Untitled-", ToString(doc.bookmark_id)>>
                           ELSE Trim(cut))

\* A title of a blank and 250 letters was named: the blank counts towards
\* the 250 characters kept, and the name is 249 letters long.
C22_Witness ==
    /\ doc.pc = "named"
    /\ doc.title = <<" ">> \o Fill("a", MaxNameLen)
    /\ Len(doc.name) = MaxNameLen - 1

\* Block i of file f is rewritten by the migration step of some run, from
\* the old rendering of its current highlight to the new one, and no other
\* block of the file changes.
ExactRewrite(f, i) ==
    \E p \in Slots :
        /\ run[p].pc = "modify"
        /\ CurrentFile(run[p]) = f
        /\ files[f][i] = OldFormat(run[p])
        /\ files'[f][i] = NewFormat(run[p])
        /\ \A j \in 1..Len(files[f]) : j # i => files'[f][j] = files[f][j]

\* C23: when the file of the current highlight exists, file resolution
\* hands it on as it is, creating nothing; and in every step each file
\* stays, keeps every block in its place but one rewritten by the migration
\* step from the old rendering to the new, and otherwise only grows by
\* an appended block.
C23_ExistingKept ==
    [][/\ \A p \in Slots :
              (run[p].pc = "file" /\ CurrentFile(run[p]) \in DOMAIN files
                   /\ (run'[p].pc # "file" \/ run'[p].page # run[p].page)) =>
                  /\ files' = files
                  /\ run'[p] = AfterFile(run[p])
       /\ \A f \in DOMAIN files :
              /\ f \in DOMAIN files'
              /\ Len(files'[f]) \in {Len(files[f]), Len(files[f]) + 1}
              /\ \A i \in 1..Len(files[f]) :
                     files'[f][i] = files[f][i] \/ ExactRewrite(f, i)]_vars

\* A note file holds a block rewritten by a migration and a block appended
\* after it, and a run has found the file again.
C23_Witness ==
    \E p \in Slots :
        LET r == run[p]
        IN  /\ r.pc = "frontmatter"
            /\ CurrentFile(r) \in DOMAIN files
            /\ Len(files[CurrentFile(r)]) = 2
            /\ files[CurrentFile(r)][1].tmpl = "plain"
            /\ files[CurrentFile(r)][2].tmpl = "link"

\* C24: with createFiles false, a highlight whose note file does not exist
\* is passed over: no file is created or changed, the frontmatter step is
\* not entered, count and the error counter stay, nothing is returned or
\* thrown, and the run goes on with the next highlight of the page or the
\* next page.
C24_AbsentSkipped ==
    [][\A p \in Slots :
          (run[p].pc = "file" /\ ~run[p].opts.createFiles
               /\ CurrentFile(run[p]) \notin DOMAIN files
               /\ (run'[p].pc # "file" \/ run'[p].page # run[p].page)) =>
              /\ files' = files
              /\ run'[p].pc \in {"file", "fetch"}
              /\ run'[p].unresolved = run[p].unresolved \cup {Current(run[p])}
              /\ run'[p].count = run[p].count
              /\ run'[p].appends = run[p].appends
              /\ run'[p].errors = run[p].errors
              /\ run'[p].cursor >= Current(run[p])
              /\ result' = result
              /\ syncInProgress' = syncInProgress]_vars

\* A run with createFiles false passed over two highlights whose file is
\* missing, appended the next one to the file that exists, and returned.
C24_Witness ==
    \E p \in Slots :
        /\ Returned(p)
        /\ ~run[p].opts.createFiles
        /\ run[p].unresolved = {1, 3}
        /\ run[p].count = 1
        /\ run[p].cursor = 4
        /\ DOMAIN files = {FileName(3)}

\* C25: a run with syncHighlights false never reads a file for the append
\* check and never appends: its count stays 0 and no file body changes
\* while it runs.  Each highlight whose file was resolved still goes through
\* the frontmatter step when syncProperties is true, the cursor is on it
\* from file resolution on, and the run goes on behind it.
C25_MetadataOnly ==
    [][\A p \in Slots :
          /\ ~run'[p].opts.syncHighlights =>
                 /\ run'[p].pc \notin {"read", "append"}
                 /\ run'[p].count = 0
                 /\ run'[p].appends = 0
                 /\ run'[p].pc \in {"file", "frontmatter"} =>
                        run'[p].cursor = Current(run'[p])
          /\ (Running(p) /\ ~run[p].opts.syncHighlights) =>
                 \A f \in DOMAIN files :
                     f \in DOMAIN files' /\ files'[f] = files[f]
          /\ (run[p].pc = "file" /\ ~run[p].opts.syncHighlights
                  /\ CurrentFile(run[p]) \in DOMAIN files'
                  /\ (run'[p].pc # "file" \/ run'[p].page # run[p].page)) =>
                 IF run[p].opts.syncProperties
                 THEN run'[p] = [run[p] EXCEPT !.pc = "frontmatter"]
                 ELSE /\ run'[p].pc \in {"file", "fetch"}
                      /\ run'[p].cursor >= Current(run[p])
          /\ (run[p].pc = "frontmatter" /\ ~run[p].opts.syncHighlights
                  /\ run'[p].pc \notin {"frontmatter", "idle"}) =>
                 /\ run'[p].pc \in {"file", "fetch"}
                 /\ run'[p].cursor >= Current(run[p])]_vars

\* A run with syncHighlights false and syncProperties true went through
\* all four highlights, created the file of the first and left it empty.
C25_Witness ==
    \E p \in Slots :
        /\ Returned(p)
        /\ ~run[p].opts.syncHighlights
        /\ run[p].opts.syncProperties
        /\ run[p].cursor = 4
        /\ run[p].count = 0
        /\ {1, 3, 4} \subseteq run[p].seen
        /\ run[p].unresolved = {}
        /\ FileName(1) \in DOMAIN files
        /\ files[FileName(1)] = <<>>

\* C26: with removeDisabled the removal pass deletes exactly the keys that
\* are a default or configured property name, not the name of an enabled
\* field and not cssclasses, aliases or tags, and leaves the other keys as
\* written; without it nothing is removed; and a key that is neither a
\* default nor a configured name is there afterwards exactly when it was
\* there before, with the value it had.
C26_KeyOwnership ==
    doc.pc = "applied" =>
        LET st == doc.settings
            known == {"title", "author", "url", "pubdate", "date", "tags",
                      "source"}
                         \cup ({st[f].propertyName : f \in DOMAIN st} \ {""})
            enabled == {st[f].propertyName :
                           f \in {g \in DOMAIN st : st[g].enabled}} \ {""}
        IN  /\ doc.removeDisabled =>
                   /\ DOMAIN doc.written \ DOMAIN doc.frontmatter
                          = {k \in DOMAIN doc.written :
                                /\ k \in known
                                /\ k \notin enabled
                                /\ k \notin {"cssclasses", "aliases", "tags"}}
                   /\ DOMAIN doc.frontmatter \subseteq DOMAIN doc.written
                   /\ \A k \in DOMAIN doc.frontmatter :
                          doc.frontmatter[k] = doc.written[k]
            /\ ~doc.removeDisabled => doc.frontmatter = doc.written
            /\ \A k \in (DOMAIN doc.before \cup DOMAIN doc.frontmatter)
                            \ known :
                   /\ k \in DOMAIN doc.before
                   /\ k \in DOMAIN doc.frontmatter
                   /\ doc.frontmatter[k] = doc.before[k]

\* With removeDisabled, tags disabled and url renamed, the removal pass
\* took out title, source and url, and left tags, aliases and the user's
\* own key as they were.
C26_Witness ==
    /\ doc.pc = "applied"
    /\ doc.removeDisabled
    /\ ~doc.settings["tags"].enabled
    /\ doc.settings["url"] = [enabled |-> TRUE, propertyName |-> "custom"]
    /\ DOMAIN doc.before = Fields \cup {"mine", "custom", "aliases"}
    /\ DOMAIN doc.written \ DOMAIN doc.frontmatter = {"title", "source", "url"}
    /\ \A k \in {"tags", "aliases", "mine"} :
           k \in DOMAIN doc.frontmatter /\ doc.frontmatter[k] = "old"

\* The name with every run of white space replaced by one hyphen.
Hyphenated(s) ==
    LET first(i) == IsSpace(s[i]) /\ (i = 1 \/ ~IsSpace(s[i - 1]))
        kept == {i \in 1..Len(s) : ~IsSpace(s[i]) \/ first(i)}
        nth(k) == CHOOSE i \in kept :
                      Cardinality({j \in kept : j <= i}) = k
    IN  [k \in 1..Cardinality(kept) |->
            IF IsSpace(s[nth(k)]) THEN "-" ELSE s[nth(k)]]

C28_Terminated ==
    doc.pc = "rendered" =>
        LET n == Len(doc.out)
        IN  /\ n >= 3
            /\ doc.out[n] = "\n" /\ doc.out[n - 1] = "\n"
            /\ ~IsSpace(doc.out[n - 2])

\* A text that ends in a newline was rendered under a template that ends in
\* a blank and names neither anchor: the block identifier was appended
\* behind the trimmed text, and the output ends ^h1, newline, newline.
C28_Witness ==
    /\ doc.pc = "rendered"
    /\ doc.template = <<"{{text}}", " ">>
    /\ doc.highlight.text = <<"a", "\n">>
    /\ doc.highlight.highlight_id = 1
    /\ doc.out = <<"a", " ", "^", "h", "1", "\n", "\n">>

\* The lines of a text.
RECURSIVE Lines(_)
Lines(s) ==
    IF \A i \in 1..Len(s) : s[i] # "\n" THEN {s}
    ELSE LET k == CHOOSE i \in 1..Len(s) :
                      s[i] = "\n" /\ \A j \in 1..(i - 1) : s[j] # "\n"
         IN  {SubSeq(s, 1, k - 1)} \cup Lines(SubSeq(s, k + 1, Len(s)))

\* C29: under a template that puts the text behind the block-quote mark,
\* every line of the highlight text is in the output behind "> ".
C29_BlockQuoted ==
    (doc.pc = "rendered" /\ doc.template = QuoteTemplate) =>
        \A line \in Lines(doc.highlight.text) :
            Contains(doc.out, <<">", " ">> \o line)

\* C30: for every highlight, legacyContentForHighlight gives what the
\* pre-template contentForHighlight gave.
C30_ByteForByte ==
    doc.pc = "legacy" => doc.legacy = doc.out

\* C31: while a run works on a highlight its cursor is on that highlight
\* and the run waits for one operation only; it leaves the highlight in the
\* last step of the loop body (the file could not be resolved, the marker
\* was found, or the append resolved), with the highlight's block in its
\* file when the file was resolved; the next highlight is a later one of
\* the same page, and the next fetch is issued only when the page has no
\* further highlight with an article.
C31_Sequential ==
    [][\A p \in Slots :
          LET r  == run[p]
              r2 == run'[p]
              work == {"file", "frontmatter", "migrate", "modify", "read",
                       "append"}
          IN  /\ r2.pc \in work =>
                     r2.page # <<>> /\ r2.cursor = Current(r2)
              /\ (r.pc \in work /\ r2.pc # "idle" /\ r2.page # r.page) =>
                     LET h == Current(r)
                         f == CurrentFile(r)
                     IN  /\ r.pc \in {"file", "read", "append"}
                         /\ r.pc = "file" => h \in r2.unresolved
                         /\ r.pc # "file" =>
                                /\ f \in DOMAIN files'
                                /\ \E i \in 1..Len(files'[f]) :
                                       files'[f][i].hid = h
                         /\ r2.pc \in {"file", "fetch"}
                         /\ r2.pc = "file" =>
                                /\ \E k \in 1..(Len(r.page) - 1) :
                                       r2.page = SubSeq(r.page, k + 1,
                                                        Len(r.page))
                                /\ Current(r2) > h
                         /\ r2.pc = "fetch" =>
                                \A k \in 2..Len(r.page) :
                                    ArticleOf(r.page[k]) = NoArticle]_vars

\* A run appended the first highlight of a page and is resolving the file
\* of the second.
C31_Witness ==
    \E p \in Slots :
        /\ run[p].pc = "file"
        /\ run[p].after = 2
        /\ run[p].page = <<4>>
        /\ run[p].appends >= 1
        /\ AnchorInFile(3)

\* C32: a run that found no notes folder (an empty vault, cursor 0), met no
\* failure and ended on an empty page returns the id of the last highlight
\* delivered and count = the number of highlights delivered; every one of
\* them has exactly one block, in the file named after its article's title,
\* there is one file per distinct file name and no other, and the blocks
\* number count.
C32_FreshSync ==
    \A p \in Slots :
        LET r == run[p]
        IN  (Returned(p) /\ r.end = "empty" /\ r.rebased /\ ~r.resets
                 /\ r.unresolved = {}) =>
                /\ r.seen = 1..r.cursor
                /\ r.count = Cardinality(r.seen)
                /\ r.appends = r.count
                /\ \A h \in r.seen :
                       /\ FileName(ArticleOf(h)) \in DOMAIN files
                       /\ Blocks(files[FileName(ArticleOf(h))], h) = 1
                /\ DOMAIN files = {FileName(ArticleOf(h)) : h \in r.seen}
                /\ \A f \in DOMAIN files : Len(files[f]) =
                       Cardinality({h \in r.seen : FileName(ArticleOf(h)) = f})

\* Four highlights of three articles came on two pages, then an empty
\* page: count 4, cursor 4, and two files, as two of the titles give the
\* same name.
C32_Witness ==
    \E p \in Slots :
        /\ Returned(p) /\ run[p].end = "empty" /\ run[p].rebased
        /\ ~run[p].resets /\ run[p].unresolved = {}
        /\ run[p].count = 4 /\ run[p].cursor = 4
        /\ Cardinality(DOMAIN files) = 2
        /\ {remote[h] : h \in 1..4} = {1, 2, 3}

\* C33: when the old rendering occurs in the file text a second time,
\* behind its first occurrence, the migration step leaves the text before
\* the first occurrence and all the text behind it, the later occurrence
\* included, as they were; what it puts in between is the new rendering
\* whenever that holds no $.
C33_FirstMatch ==
    doc.pc = "migrated" =>
        LET A == TrimEnd(RenderedFrom(doc))
            B == TrimEnd(contentForHighlightStr(doc.highlight, doc.to))
        IN  Contains(doc.old, A) =>
                LET i    == IndexOf(doc.old, A)
                    rest == SubSeq(doc.old, i + Len(A), Len(doc.old))
                    n    == Len(doc.content)
                IN  Contains(rest, A) =>
                        /\ n >= i - 1 + Len(rest)
                        /\ SubSeq(doc.content, 1, i - 1)
                               = SubSeq(doc.old, 1, i - 1)
                        /\ SubSeq(doc.content, n - Len(rest) + 1, n) = rest
                        /\ (\A k \in 1..Len(B) : B[k] # "$") =>
                               doc.content = SubSeq(doc.old, 1, i - 1) \o B
                                                 \o rest

\* The block of a highlight and a copy of it were in the file; the
\* migration rewrote the first and the copy is still there.
C33_Witness ==
    /\ doc.pc = "migrated"
    /\ doc.from = <<"{{text}}">> /\ doc.to = <<"{{link}}">>
    /\ doc.highlight.text = <<"a", "\n">>
    /\ doc.old = doc.rendered \o doc.rendered
    /\ doc.content = TrimEnd(contentForHighlightStr(doc.highlight, doc.to))
                         \o <<"\n", "\n">> \o doc.rendered

\* C34: a second migration step with the same {from, to}, on a file the
\* first one rewrote, leaves the file text as it is.
C34_MigrateIdempotent ==
    (doc.pc = "remigrated" /\ doc.rewrote) => doc.content = doc.old

\* C35: the step that ends a run's syncNotes writes notesCursor and no other
\* setting, and the steps that end the run (the save settling, an exception)
\* write none: the token, the sync frequency and the template are what the
\* settings handlers left while the run was in flight.
C35_SettingsKept ==
    [][\A p \in Slots :
          (/\ run[p].pc # "idle"
           /\ run'[p].pc \in {"save", "idle"}
           /\ run'[p].pc # run[p].pc)
          => /\ token' = token
             /\ syncFrequency' = syncFrequency
             /\ template' = template
             /\ notesCursor' = IF run'[p].pc = "save" THEN run'[p].cursor
                               ELSE notesCursor]_vars

\* A run that started with a token is at its final save, the frequency set:
\* the account was disconnected meanwhile, and the
\* cursor written is the run's.
C35_Witness ==
    /\ run[1].pc = "save"
    /\ run[1].count > 0
    /\ ~token
    /\ syncFrequency # 0
    /\ notesCursor = run[1].cursor
    /\ notesCursor > 0

C36_Resync ==
    [][\A p \in Slots :
          /\ (run[p].pc = "idle" /\ run'[p].pc # "idle") =>
                 /\ run'[p].cursorIn = IF run'[p].resync THEN 0
                                       ELSE notesCursor
                 /\ run'[p].cursor = run'[p].cursorIn
          /\ (run[p].pc # "idle" /\ run[p].resync /\ run[p].synced
              /\ run[p].clean) => files' = files
          /\ (run[p].pc # "save" /\ run'[p].pc = "save" /\ run'[p].resync
              /\ run'[p].end \in {"empty", "gaveup"}) =>
                 /\ notesCursor' = run'[p].cursor
                 /\ \A h \in run'[p].seen : h <= run'[p].cursor
                 /\ run'[p].cursor = run'[p].lastId
                 /\ (run'[p].end = "empty" /\ run'[p].synced
                     /\ run'[p].clean) =>
                        /\ run'[p].count = 0
                        /\ run'[p].appends = 0
                        /\ run'[p].cursor = Len(remote)]_vars

\* A resync over a remote of MaxId highlights, all synced by earlier runs, has
\* ended on an empty page: count 0, the cursor is MaxId again.
C36_Witness ==
    \E p \in Slots :
        /\ Returned(p) /\ run[p].end = "empty"
        /\ run[p].resync /\ run[p].synced /\ run[p].clean
        /\ Len(remote) = MaxId
        /\ \E h \in 1..MaxId : ArticleOf(h) # NoArticle
        /\ run[p].count = 0
        /\ notesCursor = MaxId

====
